---- MODULE Spec2Model ----
(***************************************************************************)
(* Relatenta: entity resolution and relationship graph engine.             *)
(*                                                                         *)
(* The model follows src/app/crud.py, src/app/services_graph.py and the    *)
(* session discipline of src/app/db.py.  A SQLAlchemy session created by   *)
(* get_session_factory has autoflush=False: rows handed to db.add() stay   *)
(* pending in the session and are invisible to db.execute(select/delete/   *)
(* update) until some db.flush() or the db.commit() of get_db writes them. *)
(* The store is therefore modelled in three layers:                        *)
(*   committed  the tables as of the last commit,                          *)
(*   db         the tables as the open transaction sees them,              *)
(*   pending    the rows added to the session and not yet flushed.         *)
(***************************************************************************)
EXTENDS Integers, Sequences, FiniteSets, TLC

VARIABLES
    db,         \* tables seen by the statements of the open session
    committed,  \* tables as of the last commit (what a rollback restores)
    pending,    \* session.new: rows added by db.add() and not yet flushed
    open,       \* TRUE while a get_db() session holds uncommitted work
    last,       \* history: the most recent crud call and what it observed
    prev,       \* history: the crud call before `last`
    ops,        \* history: number of crud calls made so far
    resp,       \* the response of the most recent build_graph call
    files,      \* DATABASES_DIR: the database file at each path
    conc        \* the get_db sessions in progress: this one and a second one

vars == <<db, committed, pending, open, last, prev, ops, resp, files, conc>>

(***************************************************************************)
(* Bounds                                                                  *)
(***************************************************************************)
MaxOps == 3         \* crud calls (upsert, recompute_*, merge) per behaviour

(***************************************************************************)
(* Values                                                                  *)
(***************************************************************************)
\* Python None / SQL NULL for integer valued fields (ids and years); row ids
\* start at 1 and a publication_year of 0 is falsy in upsert, so 0 is free.
None == 0
\* None or "" for string valued fields; strings are sequences of characters.
Empty == <<>>
\* Python None / SQL NULL of a source id, where "" is the empty string
Null == "NULL"
\* a concept without a "score" key (or with score None); 0 is a score
NoScore == -1

\* Code points of the characters the inputs use (ord()).
Ord == [c \in {"0", "1", "2", "3", "4", "5", "6", "7", "8", "9",
               " ", "A", "B", "C", "K", "L", "M", "R", "S", "U", "Z",
               "a", "b", "c", "k", "l", "m", "r", "s", "u", "z",
               "n", "o", "w"} |->
          CASE c = " " -> 32
            [] c = "0" -> 48  [] c = "1" -> 49  [] c = "2" -> 50
            [] c = "3" -> 51  [] c = "4" -> 52  [] c = "5" -> 53
            [] c = "6" -> 54  [] c = "7" -> 55  [] c = "8" -> 56
            [] c = "9" -> 57
            [] c = "A" -> 65  [] c = "B" -> 66  [] c = "C" -> 67
            [] c = "K" -> 75  [] c = "L" -> 76  [] c = "M" -> 77
            [] c = "R" -> 82  [] c = "S" -> 83  [] c = "U" -> 85
            [] c = "Z" -> 90
            [] c = "a" -> 97  [] c = "b" -> 98  [] c = "c" -> 99
            [] c = "k" -> 107 [] c = "l" -> 108 [] c = "m" -> 109
            [] c = "n" -> 110 [] c = "o" -> 111
            [] c = "r" -> 114 [] c = "s" -> 115 [] c = "u" -> 117
            [] c = "w" -> 119 [] c = "z" -> 122]

Chr(n) == CHOOSE c \in DOMAIN Ord : Ord[c] = n

\* str.lower() and str.upper(), character by character.
LowerChar(c) == IF Ord[c] >= 65 /\ Ord[c] <= 90 THEN Chr(Ord[c] + 32) ELSE c
UpperChar(c) == IF Ord[c] >= 97 /\ Ord[c] <= 122 THEN Chr(Ord[c] - 32) ELSE c
RECURSIVE Lower(_)
Lower(s) == IF s = <<>> THEN <<>> ELSE <<LowerChar(Head(s))>> \o Lower(Tail(s))
RECURSIVE Upper(_)
Upper(s) == IF s = <<>> THEN <<>> ELSE <<UpperChar(Head(s))>> \o Upper(Tail(s))

\* str.strip(): drop leading and trailing whitespace.
RECURSIVE LStrip(_)
LStrip(s) == IF s # <<>> /\ Head(s) = " " THEN LStrip(Tail(s)) ELSE s
RECURSIVE RStrip(_)
RStrip(s) == IF s # <<>> /\ s[Len(s)] = " " THEN RStrip(SubSeq(s, 1, Len(s) - 1)) ELSE s
Strip(s) == RStrip(LStrip(s))

\* Python's order on str: lexicographic by code point.
RECURSIVE LexLess(_, _)
LexLess(s, t) ==
    IF t = <<>> THEN FALSE
    ELSE IF s = <<>> THEN TRUE
    ELSE IF Ord[Head(s)] # Ord[Head(t)] THEN Ord[Head(s)] < Ord[Head(t)]
    ELSE LexLess(Tail(s), Tail(t))

Max(S) == IF S = {} THEN 0 ELSE CHOOSE x \in S : \A y \in S : y <= x

\* sorted(set(xs)) for integers and for strings.
RECURSIVE SortedInts(_)
SortedInts(S) ==
    IF S = {} THEN <<>>
    ELSE LET m == CHOOSE x \in S : \A y \in S : x <= y
         IN  <<m>> \o SortedInts(S \ {m})
RECURSIVE SortedStrs(_)
SortedStrs(S) ==
    IF S = {} THEN <<>>
    ELSE LET m == CHOOSE x \in S : \A y \in S \ {x} : LexLess(x, y)
         IN  <<m>> \o SortedStrs(S \ {m})

\* An INTEGER PRIMARY KEY column of SQLite: the next rowid is max(rowid)+1.
NextId(rows) == Max({r.id : r \in rows}) + 1

EmptyDb ==
    [works |-> {}, authors |-> {}, aliases |-> {}, orgs |-> {}, venues |-> {},
     keywords |-> {}, workAuthors |-> {}, workAffils |-> {}, workKeywords |-> {},
     coauthorEdges |-> {}, orgEdges |-> {}, nationEdges |-> {}, merges |-> {}]

(***************************************************************************)
(* The session: db.add, db.flush                                           *)
(***************************************************************************)
\* A step of a crud function threads s = [db, pend, ok, err]; ok = FALSE once
\* a statement has raised, after which nothing more runs; err names the
\* constraint that failed (or the exception).

\* INSERT of the pending rows; a primary key already present raises.
RECURSIVE InsertAll(_, _)
InsertAll(d, p) ==
    IF p = <<>> THEN [ok |-> TRUE, db |-> d, err |-> ""]
    ELSE
      LET r == Head(p) IN
      CASE r.t = "alias" ->
             InsertAll([d EXCEPT !.aliases = @ \cup
                          {[id |-> NextId(d.aliases), author_id |-> r.author_id,
                            raw_name |-> r.raw_name, source |-> r.source,
                            confidence |-> r.confidence]}], Tail(p))
        [] r.t = "wa" ->
             IF \E x \in d.workAuthors : x.work_id = r.work_id /\ x.author_id = r.author_id
             THEN [ok |-> FALSE, db |-> d, err |-> "pk_work_authors"]
             ELSE InsertAll([d EXCEPT !.workAuthors = @ \cup
                          {[work_id |-> r.work_id, author_id |-> r.author_id,
                            position |-> r.position]}], Tail(p))
        [] r.t = "waff" ->
             InsertAll([d EXCEPT !.workAffils = @ \cup
                          {[id |-> NextId(d.workAffils), work_id |-> r.work_id,
                            author_id |-> r.author_id, org_id |-> r.org_id,
                            country_code |-> r.country_code]}], Tail(p))
        [] r.t = "wk" ->
             IF \E x \in d.workKeywords : x.work_id = r.work_id /\ x.keyword_id = r.keyword_id
             THEN [ok |-> FALSE, db |-> d, err |-> "pk_work_keywords"]
             ELSE InsertAll([d EXCEPT !.workKeywords = @ \cup
                          {[work_id |-> r.work_id, keyword_id |-> r.keyword_id,
                            weight |-> r.weight, extractor |-> r.extractor]}], Tail(p))
        [] r.t = "merge" ->
             InsertAll([d EXCEPT !.merges = @ \cup
                          {[id |-> NextId(d.merges), entity_type |-> r.entity_type,
                            kept_id |-> r.kept_id, removed_id |-> r.removed_id,
                            reason |-> r.reason, user |-> r.user]}], Tail(p))

\* db.add(row)
Add(s, row) == IF s.ok THEN [s EXCEPT !.pend = Append(@, row)] ELSE s

\* db.flush(): write every pending row of the session.
Flush(s) ==
    IF ~s.ok THEN s
    ELSE LET r == InsertAll(s.db, s.pend)
         IN  [db |-> r.db, pend |-> <<>>, ok |-> r.ok, err |-> r.err]

(***************************************************************************)
(* Entity store: get_or_create_*                                           *)
(***************************************************************************)
\* Each returns [s |-> session state, id |-> id of the row, None if none].

get_or_create_venue(s, name, vtype) ==
    IF name = "" \/ ~s.ok THEN [s |-> s, id |-> None]
    ELSE IF \E v \in s.db.venues : v.name = name
    THEN [s |-> s, id |-> (CHOOSE v \in s.db.venues : v.name = name).id]
    ELSE LET nid == NextId(s.db.venues)
         IN  [s |-> Flush([s EXCEPT !.db.venues = @ \cup {[id |-> nid, name |-> name,
                                                             type |-> vtype]}]),
              id |-> nid]

\* the normalization without .lower()
AuthorNormNoLower(display_name) == Strip(display_name)

\* norm = (normalized_name or display_name).strip().lower()
AuthorNorm(display_name) == Lower(Strip(display_name))

\* confidence=0.9 of the alias of a new Author, in hundredths
IngestConfidence == 90

\* a get_or_create_author that records the raw name of every call as an alias
get_or_create_author_alias_always(s, display_name, orcid) ==
    LET norm == Lower(Strip(display_name)) IN
    IF ~s.ok THEN [s |-> s, id |-> None]
    ELSE IF \E a \in s.db.authors : a.normalized_name = norm
    THEN LET q == CHOOSE a \in s.db.authors : a.normalized_name = norm
         IN  [s |-> [s EXCEPT !.pend = Append(@, [t |-> "alias", author_id |-> q.id,
                              raw_name |-> display_name, source |-> "ingest",
                              confidence |-> IngestConfidence])],
              id |-> q.id]
    ELSE LET nid == NextId(s.db.authors)
             s1  == [s EXCEPT !.db.authors = @ \cup
                        {[id |-> nid, normalized_name |-> norm,
                          display_name |-> display_name, orcid |-> orcid]}]
         IN  [s |-> [s1 EXCEPT !.pend = Append(@, [t |-> "alias", author_id |-> nid,
                              raw_name |-> display_name, source |-> "ingest",
                              confidence |-> IngestConfidence])],
              id |-> nid]

get_or_create_author(s, display_name, orcid) ==
    LET norm == AuthorNorm(display_name) IN
    IF ~s.ok THEN [s |-> s, id |-> None]
    ELSE IF \E a \in s.db.authors : a.normalized_name = norm
    THEN [s |-> s, id |-> (CHOOSE a \in s.db.authors : a.normalized_name = norm).id]
    ELSE LET nid == NextId(s.db.authors)
             s1  == Flush([s EXCEPT !.db.authors = @ \cup
                        {[id |-> nid, normalized_name |-> norm,
                          display_name |-> display_name, orcid |-> orcid]}])
         IN  [s |-> Add(s1, [t |-> "alias", author_id |-> nid,
                              raw_name |-> display_name, source |-> "ingest",
                              confidence |-> IngestConfidence]),
              id |-> nid]

KeywordNorm(term) == Lower(Strip(term))

get_or_create_keyword(s, term, display) ==
    LET norm == KeywordNorm(term) IN
    IF ~s.ok THEN [s |-> s, id |-> None]
    ELSE IF \E k \in s.db.keywords : k.term_norm = norm
    THEN [s |-> s, id |-> (CHOOSE k \in s.db.keywords : k.term_norm = norm).id]
    ELSE LET nid == NextId(s.db.keywords)
         IN  [s |-> Flush([s EXCEPT !.db.keywords = @ \cup
                        {[id |-> nid, term_norm |-> norm,
                          term_display |-> IF display # Empty THEN display ELSE term]}]),
              id |-> nid]

get_or_create_org(s, name, country) ==
    IF ~s.ok THEN [s |-> s, id |-> None]
    ELSE IF \E o \in s.db.orgs : o.name = name
    THEN [s |-> s, id |-> (CHOOSE o \in s.db.orgs : o.name = name).id]
    ELSE LET nid == NextId(s.db.orgs)
         IN  [s |-> Flush([s EXCEPT !.db.orgs = @ \cup
                        {[id |-> nid, name |-> name, country_code |-> country]}]),
              id |-> nid]

(***************************************************************************)
(* Record upsert                                                           *)
(***************************************************************************)
Unknown == <<"U", "n", "k", "n", "o", "w", "n">>
Untitled == "(untitled)"
\* float(c.get("score") or 1.0): scores are kept in hundredths, 100 is 1.0
DefaultWeight == 100
KeywordWeight(score) == IF score = NoScore \/ score = 0 THEN DefaultWeight ELSE score

\* for inst_item in inst: one WorkAffiliation per institution entry
RECURSIVE LinkInstitutions(_, _, _, _, _)
LinkInstitutions(s, wid, aid, insts, year) ==
    IF insts = <<>> \/ ~s.ok THEN s
    ELSE
      LET inst_item == Head(insts)
          org_name  == inst_item.display_name
          country   == inst_item.country_code
          org == IF org_name # "" THEN get_or_create_org(s, org_name, country)
                 ELSE [s |-> s, id |-> None]
          s1  == Add(org.s, [t |-> "waff", work_id |-> wid, author_id |-> aid,
                             org_id |-> org.id, country_code |-> country])
      IN  LinkInstitutions(s1, wid, aid, Tail(insts), year)

\* for idx, auth in enumerate(authorships)
RECURSIVE LinkAuthors(_, _, _, _, _)
LinkAuthors(s, wid, auths, idx, year) ==
    IF auths = <<>> \/ ~s.ok THEN s
    ELSE
      LET auth      == Head(auths)
          a_display == IF auth.display_name # Empty THEN auth.display_name ELSE Unknown
          author    == get_or_create_author(s, a_display, Null)
          s1 == Add(author.s, [t |-> "wa", work_id |-> wid, author_id |-> author.id,
                               position |-> idx])
          s2 == LinkInstitutions(s1, wid, author.id, auth.institutions, year)
      IN  LinkAuthors(s2, wid, Tail(auths), idx + 1, year)

\* for c in concepts
RECURSIVE LinkKeywords(_, _, _)
LinkKeywords(s, wid, concepts) ==
    IF concepts = <<>> \/ ~s.ok THEN s
    ELSE
      LET c  == Head(concepts)
          kw == get_or_create_keyword(s, c.display_name, c.display_name)
          s1 == Add(kw.s, [t |-> "wk", work_id |-> wid, keyword_id |-> kw.id,
                           weight |-> KeywordWeight(c.score), extractor |-> "openalex"])
      IN  LinkKeywords(s1, wid, Tail(concepts))

\* the lookup with the (source_uid, source) match tried first
ExistingWorkUidFirst(d, doi, source_uid) ==
    LET byUid == IF source_uid \notin {Null, ""}
                 THEN {x \in d.works : x.source_uid = source_uid /\ x.source = "OpenAlex"}
                 ELSE {}
        byDoi == IF byUid = {} /\ doi # Empty THEN {x \in d.works : x.doi = doi} ELSE {}
    IN  byUid \cup byDoi

\* The Work the record matches: by doi first, then by (source_uid, source).
ExistingWork(d, doi, source_uid) ==
    LET byDoi == IF doi # Empty THEN {x \in d.works : x.doi = doi} ELSE {}
        byUid == IF byDoi = {} /\ source_uid \notin {Null, ""}
                 THEN {x \in d.works : x.source_uid = source_uid /\ x.source = "OpenAlex"}
                 ELSE {}
    IN  byDoi \cup byUid

\* UniqueConstraint("doi"), UniqueConstraint("source_uid", "source"): a row
\* with a NULL in the constrained columns never conflicts.
UniqueWork(works, obj) ==
    /\ obj.doi # Empty => ~\E x \in works : x.doi = obj.doi
    /\ obj.source_uid # Null =>
          ~\E x \in works : x.source_uid = obj.source_uid /\ x.source = obj.source

\* an upsert whose update branch also takes the doi and the source id of the
\* new record
upsert_overwriting_keys(s0, w) ==
    LET doi        == Lower(w.doi)
        source_uid == w.id
        title      == IF w.title # "" THEN w.title ELSE Untitled
        year       == w.publication_year
        venue      == IF w.venue # "" THEN get_or_create_venue(s0, w.venue, Null)
                      ELSE [s |-> s0, id |-> None]
        s1         == venue.s
        existing   == ExistingWork(s1.db, doi, source_uid)
    IN
    IF ~s1.ok THEN [s |-> s1, id |-> None]
    ELSE IF existing # {} THEN
      LET e  == CHOOSE x \in existing : TRUE
          e2 == [e EXCEPT !.title = title, !.year = year, !.venue_id = venue.id,
                           !.doi = doi, !.source_uid = source_uid]
          d2 == [s1.db EXCEPT
                   !.works = (@ \ {e}) \cup {e2},
                   !.workAuthors  = {x \in @ : x.work_id # e.id},
                   !.workAffils   = {x \in @ : x.work_id # e.id},
                   !.workKeywords = {x \in @ : x.work_id # e.id}]
          s2 == Flush([s1 EXCEPT !.db = d2])
          s3 == LinkAuthors(s2, e.id, w.authorships, 0, year)
          s4 == LinkKeywords(s3, e.id, w.concepts)
      IN  [s |-> s4, id |-> e.id]
    ELSE
      LET nid == NextId(s1.db.works)
          obj == [id |-> nid, doi |-> doi, source_uid |-> source_uid, title |-> title,
                  year |-> year, venue_id |-> venue.id, source |-> "OpenAlex"]
          s2  == IF UniqueWork(s1.db.works, obj)
                 THEN Flush([s1 EXCEPT !.db.works = @ \cup {obj}])
                 ELSE [s1 EXCEPT !.ok = FALSE, !.err = "uq_works"]
          s3  == LinkAuthors(s2, nid, w.authorships, 0, year)
          s4  == LinkKeywords(s3, nid, w.concepts)
      IN  [s |-> s4, id |-> nid]

\* Returns [s |-> session state, id |-> id of the Work].
upsert_work_from_openalex(s0, w) ==
    LET doi        == Lower(w.doi)
        source_uid == w.id
        title      == IF w.title # "" THEN w.title ELSE Untitled
        year       == w.publication_year
        venue      == IF w.venue # "" THEN get_or_create_venue(s0, w.venue, Null)
                      ELSE [s |-> s0, id |-> None]
        s1         == venue.s
        existing   == ExistingWork(s1.db, doi, source_uid)
    IN
    IF ~s1.ok THEN [s |-> s1, id |-> None]
    ELSE IF existing # {} THEN
      LET e  == CHOOSE x \in existing : TRUE
          e2 == [e EXCEPT !.title = title, !.year = year, !.venue_id = venue.id]
          d2 == [s1.db EXCEPT
                   !.works = (@ \ {e}) \cup {e2},
                   !.workAuthors  = {x \in @ : x.work_id # e.id},
                   !.workAffils   = {x \in @ : x.work_id # e.id},
                   !.workKeywords = {x \in @ : x.work_id # e.id}]
          s2 == Flush([s1 EXCEPT !.db = d2])
          s3 == LinkAuthors(s2, e.id, w.authorships, 0, year)
          s4 == LinkKeywords(s3, e.id, w.concepts)
      IN  [s |-> s4, id |-> e.id]
    ELSE
      LET nid == NextId(s1.db.works)
          obj == [id |-> nid, doi |-> doi, source_uid |-> source_uid, title |-> title,
                  year |-> year, venue_id |-> venue.id, source |-> "OpenAlex"]
          s2  == IF UniqueWork(s1.db.works, obj)
                 THEN Flush([s1 EXCEPT !.db.works = @ \cup {obj}])
                 ELSE [s1 EXCEPT !.ok = FALSE, !.err = "uq_works"]
          s3  == LinkAuthors(s2, nid, w.authorships, 0, year)
          s4  == LinkKeywords(s3, nid, w.concepts)
      IN  [s |-> s4, id |-> nid]

(***************************************************************************)
(* Edge aggregator: recompute_*_edges                                      *)
(***************************************************************************)
\* key = tuple(sorted([x, y])) for organization ids and for country codes
SortedPair(kind, x, y) ==
    IF kind = "nation" THEN (IF LexLess(y, x) THEN <<y, x>> ELSE <<x, y>>)
    ELSE IF kind = "org" THEN (IF y < x THEN <<y, x>> ELSE <<x, y>>)
    ELSE <<x, y>>

\* for i in range(len(xs)): for j in range(i+1, len(xs)):
\*     pairs[key] = pairs.get(key, 0) + 1
RECURSIVE CountPairs(_, _, _, _, _)
CountPairs(pairs, xs, i, j, kind) ==
    IF i > Len(xs) THEN pairs
    ELSE IF j > Len(xs) THEN CountPairs(pairs, xs, i + 1, i + 2, kind)
    ELSE LET key == SortedPair(kind, xs[i], xs[j])
             p2  == IF key \in DOMAIN pairs
                    THEN [pairs EXCEPT ![key] = @ + 1]
                    ELSE [k \in DOMAIN pairs \cup {key} |->
                            IF k = key THEN 1 ELSE pairs[k]]
         IN  CountPairs(p2, xs, i, j + 1, kind)

\* the entities of one Work listed in descending order
WorkEntitiesDescending(d, wid, kind) ==
    LET up == IF kind = "coauthor"
              THEN SortedInts({x.author_id : x \in {y \in d.workAuthors : y.work_id = wid}})
              ELSE IF kind = "org"
              THEN SortedInts({x.org_id : x \in {y \in d.workAffils :
                                          y.work_id = wid /\ y.org_id # None}})
              ELSE SortedStrs({x.country_code : x \in {y \in d.workAffils :
                                          y.work_id = wid /\ y.country_code # Empty}})
    IN  [i \in 1..Len(up) |-> up[Len(up) + 1 - i]]

\* The sorted, de-duplicated entities one Work is linked to, read from the
\* flushed rows only (the select does not see pending rows).
WorkEntities(d, wid, kind) ==
    IF kind = "coauthor"
    THEN SortedInts({x.author_id : x \in {y \in d.workAuthors : y.work_id = wid}})
    ELSE IF kind = "org"
    THEN SortedInts({x.org_id : x \in {y \in d.workAffils :
                                          y.work_id = wid /\ y.org_id # None}})
    ELSE SortedStrs({x.country_code : x \in {y \in d.workAffils :
                                          y.work_id = wid /\ y.country_code # Empty}})

\* for wid in works
RECURSIVE ScanWorks(_, _, _, _)
ScanWorks(pairs, wids, d, kind) ==
    IF wids = <<>> THEN pairs
    ELSE ScanWorks(CountPairs(pairs, WorkEntities(d, Head(wids), kind), 1, 2, kind),
                   Tail(wids), d, kind)

NoPairs == [k \in {} |-> 0]
WorkIds(d) == SortedInts({x.id : x \in d.works})

recompute_coauthor_edges(s) ==
    IF ~s.ok THEN s
    ELSE
      LET d1    == [s.db EXCEPT !.coauthorEdges = {}]
          pairs == ScanWorks(NoPairs, WorkIds(d1), d1, "coauthor")
          rows  == {[a_id |-> k[1], b_id |-> k[2], weight |-> pairs[k],
                     evidence_count |-> pairs[k]] : k \in DOMAIN pairs}
          s2    == Flush([s EXCEPT !.db = d1])
      IN  IF s2.ok THEN [s2 EXCEPT !.db.coauthorEdges = rows] ELSE s2

recompute_org_edges(s) ==
    IF ~s.ok THEN s
    ELSE
      LET d1    == [s.db EXCEPT !.orgEdges = {}]
          pairs == ScanWorks(NoPairs, WorkIds(d1), d1, "org")
          rows  == {[org1_id |-> k[1], org2_id |-> k[2], weight |-> pairs[k]] :
                      k \in DOMAIN pairs}
          s2    == Flush([s EXCEPT !.db = d1])
      IN  IF s2.ok THEN [s2 EXCEPT !.db.orgEdges = rows] ELSE s2

\* recompute_nation_edges flushes right after the delete, before it scans.
recompute_nation_edges(s) ==
    IF ~s.ok THEN s
    ELSE
      LET s1    == Flush([s EXCEPT !.db.nationEdges = {}])
          pairs == ScanWorks(NoPairs, WorkIds(s1.db), s1.db, "nation")
          rows  == {[n1 |-> k[1], n2 |-> k[2], weight |-> pairs[k]] :
                      k \in DOMAIN pairs}
      IN  IF s1.ok THEN [s1 EXCEPT !.db.nationEdges = rows] ELSE s1

(***************************************************************************)
(* Merge service                                                           *)
(***************************************************************************)
\* str(n) of a non-negative integer: its decimal digits
RECURSIVE Str(_)
Str(n) == IF n < 10 THEN <<Chr(48 + n)>> ELSE Str(n \div 10) \o <<Chr(48 + (n % 10))>>

\* the log row with kept and removed exchanged
MergeLogSwapped(kept_id, removed_id, reason, user) ==
    [t |-> "merge", entity_type |-> "author",
     kept_id |-> Str(removed_id), removed_id |-> Str(kept_id),
     reason |-> reason, user |-> user]

\* MergeLog(entity_type="author", kept_id=str(kept_id), removed_id=str(removed_id),
\*          reason=reason, user=user)
MergeLog(kept_id, removed_id, reason, user) ==
    [t |-> "merge", entity_type |-> "author",
     kept_id |-> Str(kept_id), removed_id |-> Str(removed_id),
     reason |-> reason, user |-> user]

\* a merge that deletes the kept Author along with the removed one
merge_authors_delete_both(s, kept_id, removed_id, reason, user) ==
    IF ~s.ok THEN s
    ELSE Add([s EXCEPT !.db.authors = {x \in @ : x.id \notin {kept_id, removed_id}}],
             MergeLog(kept_id, removed_id, reason, user))

merge_authors(s, kept_id, removed_id, reason, user) ==
    IF ~s.ok THEN s
    ELSE
      LET moved == {x \in s.db.workAuthors : x.author_id = removed_id}
          \* UPDATE work_authors SET author_id = kept: the primary key
          \* (work_id, author_id) of a moved row may already be taken
          clash == kept_id # removed_id /\
                   \E x \in moved : \E y \in s.db.workAuthors :
                       y.work_id = x.work_id /\ y.author_id = kept_id
          d1 == [s.db EXCEPT
                   !.workAuthors = {IF x.author_id = removed_id
                                    THEN [x EXCEPT !.author_id = kept_id] ELSE x : x \in @},
                   !.workAffils  = {IF x.author_id = removed_id
                                    THEN [x EXCEPT !.author_id = kept_id] ELSE x : x \in @},
                   !.aliases     = {IF x.author_id = removed_id
                                    THEN [x EXCEPT !.author_id = kept_id] ELSE x : x \in @},
                   !.authors     = {x \in @ : x.id # removed_id}]
          s1 == Add([s EXCEPT !.db = d1], MergeLog(kept_id, removed_id, reason, user))
      IN  IF clash THEN [s EXCEPT !.ok = FALSE, !.err = "pk_work_authors"]
          ELSE recompute_nation_edges(recompute_org_edges(recompute_coauthor_edges(s1)))

(***************************************************************************)
(* Graph view builder: build_graph                                         *)
(***************************************************************************)
\* the year filter without its upper bound
YearOkNoMax(w, year_min, year_max) ==
    year_min # None => (w.year # None /\ w.year >= year_min)

\* q.where(Work.year >= year_min), q.where(Work.year <= year_max): a bound
\* that is None adds no condition, a NULL year satisfies no comparison.
YearOk(w, year_min, year_max) ==
    /\ (year_min # None => (w.year # None /\ w.year >= year_min))
    /\ (year_max # None => (w.year # None /\ w.year <= year_max))

FilteredWorks(d, year_min, year_max) == {w \in d.works : YearOk(w, year_min, year_max)}

\* f"A{a.id}", f"N{n}": the layer's prefix followed by the id or the code
NodeId(prefix, t) == <<prefix>> \o t

\* The elements of the focus_ids list are Python ints or strs.
PyInt(n) == [isstr |-> FALSE, int |-> n, str |-> Empty]
PyStr(t) == [isstr |-> TRUE, int |-> None, str |-> t]
\* the ints of the list, the values db.get() can find by primary key
FocusInts(q) == {f.int : f \in {x \in q.focus_ids : ~x.isstr}}

EmptyGraph == [nodes |-> {}, edges |-> {}]

\* select(WorkAuthor.author_id).join(Work) with the year conditions
YearAuthors(d, year_min, year_max) ==
    {x.author_id : x \in {y \in d.workAuthors :
        \E w \in FilteredWorks(d, year_min, year_max) : w.id = y.work_id}}

AuthorGraph(d, q) ==
    LET valid_focus_ids == {f \in FocusInts(q) : \E a \in d.authors : a.id = f}
        coauthor_ids ==
            {e.b_id : e \in {x \in d.coauthorEdges :
                        x.a_id \in valid_focus_ids /\ x.weight >= q.edge_min_weight}}
            \cup
            {e.a_id : e \in {x \in d.coauthorEdges :
                        x.b_id \in valid_focus_ids /\ x.weight >= q.edge_min_weight}}
        ego == valid_focus_ids \cup coauthor_ids
        author_ids ==
            IF q.focus_ids # {}
            THEN IF q.focus_only
                 THEN IF q.year_min # None \/ q.year_max # None
                      THEN {x \in YearAuthors(d, q.year_min, q.year_max) : x \in ego}
                           \cup valid_focus_ids
                      ELSE ego
                 ELSE YearAuthors(d, q.year_min, q.year_max) \cup valid_focus_ids
            ELSE YearAuthors(d, q.year_min, q.year_max)
        added_node_ids == {x \in author_ids : \E a \in d.authors : a.id = x}
    IN
    IF q.focus_ids # {} /\ valid_focus_ids = {} THEN EmptyGraph
    ELSE [nodes |-> {[id |-> NodeId("A", Str(x)),
                      type |-> IF PyInt(x) \in q.focus_ids THEN "focus_author" ELSE "author"] :
                        x \in added_node_ids},
          edges |-> {[source |-> NodeId("A", Str(ce.a_id)), target |-> NodeId("A", Str(ce.b_id)),
                      weight |-> ce.weight] :
                        ce \in {x \in d.coauthorEdges :
                                  /\ x.weight >= q.edge_min_weight
                                  /\ x.a_id \in added_node_ids
                                  /\ x.b_id \in added_node_ids}}]

\* kw_counts[k] += 1 for every keyword of one Work
RECURSIVE CountEach(_, _)
CountEach(counts, ks) ==
    IF ks = <<>> THEN counts
    ELSE LET k == Head(ks)
         IN  CountEach(IF k \in DOMAIN counts
                       THEN [counts EXCEPT ![k] = @ + 1]
                       ELSE [x \in DOMAIN counts \cup {k} |->
                               IF x = k THEN 1 ELSE counts[x]],
                       Tail(ks))

\* for wid in work_ids: acc = [counts, edges_map, added]; ego is TRUE in
\* focus-only mode, where only Works holding a focus keyword contribute.
RECURSIVE ScanKeywords(_, _, _, _, _)
ScanKeywords(acc, wids, d, valid, ego) ==
    IF wids = <<>> THEN acc
    ELSE
      LET wid == Head(wids)
          kws == SortedInts({x.keyword_id : x \in {y \in d.workKeywords : y.work_id = wid}})
          kws_set == {kws[i] : i \in 1..Len(kws)}
          hit == ~ego \/ kws_set \cap valid # {}
          acc2 == IF hit
                  THEN [counts    |-> CountEach(acc.counts, kws),
                        edges_map |-> CountPairs(acc.edges_map, kws, 1, 2, "keyword"),
                        added     |-> acc.added \cup kws_set]
                  ELSE acc
      IN  ScanKeywords(acc2, Tail(wids), d, valid, ego)

KeywordGraph(d, q) ==
    LET work_ids == SortedInts({w.id : w \in FilteredWorks(d, q.year_min, q.year_max)})
        valid_focus_ids == {f \in FocusInts(q) : \E k \in d.keywords : k.id = f}
        ego  == q.focus_ids # {} /\ q.focus_only
        acc0 == [counts |-> NoPairs, edges_map |-> NoPairs,
                 added |-> IF ego THEN valid_focus_ids ELSE {}]
        acc  == ScanKeywords(acc0, work_ids, d, valid_focus_ids, ego)
        added_keyword_ids == acc.added
    IN
    IF q.focus_ids # {} /\ valid_focus_ids = {} THEN EmptyGraph
    ELSE [nodes |-> {[id |-> NodeId("K", Str(kid)),
                      type |-> IF PyInt(kid) \in q.focus_ids THEN "focus_keyword" ELSE "keyword",
                      count |-> IF kid \in DOMAIN acc.counts THEN acc.counts[kid] ELSE 0] :
                        kid \in {x \in added_keyword_ids : \E k \in d.keywords : k.id = x}},
          edges |-> {[source |-> NodeId("K", Str(k[1])), target |-> NodeId("K", Str(k[2])),
                      weight |-> acc.edges_map[k]] :
                        k \in {x \in DOMAIN acc.edges_map :
                                  /\ acc.edges_map[x] >= q.edge_min_weight
                                  /\ x[1] \in added_keyword_ids
                                  /\ x[2] \in added_keyword_ids}}]

\* select(WorkAffiliation.org_id).join(Work) with org_id not NULL and the years
YearOrgs(d, year_min, year_max) ==
    {x.org_id : x \in {y \in d.workAffils :
        /\ y.org_id # None
        /\ \E w \in FilteredWorks(d, year_min, year_max) : w.id = y.work_id}}

OrgGraph(d, q) ==
    LET valid_focus_ids == {f \in FocusInts(q) : \E o \in d.orgs : o.id = f}
        strong == {e \in d.orgEdges : e.weight >= q.edge_min_weight}
        focus_related_orgs ==
            valid_focus_ids
            \cup {e.org2_id : e \in {x \in strong : x.org1_id \in valid_focus_ids}}
            \cup {e.org1_id : e \in {x \in strong : x.org2_id \in valid_focus_ids}}
        org_ids ==
            IF q.focus_ids # {}
            THEN IF q.focus_only THEN focus_related_orgs
                 ELSE YearOrgs(d, q.year_min, q.year_max) \cup valid_focus_ids
            ELSE YearOrgs(d, q.year_min, q.year_max)
        added_org_ids == {x \in org_ids : \E o \in d.orgs : o.id = x}
    IN
    IF q.focus_ids # {} /\ valid_focus_ids = {} THEN EmptyGraph
    ELSE [nodes |-> {[id |-> NodeId("O", Str(x)),
                      type |-> IF PyInt(x) \in q.focus_ids THEN "focus_org" ELSE "org"] :
                        x \in added_org_ids},
          edges |-> {[source |-> NodeId("O", Str(e.org1_id)), target |-> NodeId("O", Str(e.org2_id)),
                      weight |-> e.weight] :
                        e \in {x \in strong : x.org1_id \in added_org_ids
                                              /\ x.org2_id \in added_org_ids}}]

\* select(WorkAffiliation.country_code).join(Work), code not NULL, the years
YearNations(d, year_min, year_max) ==
    {x.country_code : x \in {y \in d.workAffils :
        /\ y.country_code # Empty
        /\ \E w \in FilteredWorks(d, year_min, year_max) : w.id = y.work_id}}

NationGraph(d, q) ==
    LET \* isinstance(focus_id, str) and len(focus_id) == 2, then .upper()
        valid_focus_codes ==
            {Upper(f.str) : f \in {x \in q.focus_ids : x.isstr /\ Len(x.str) = 2}}
        strong == {e \in d.nationEdges : e.weight >= q.edge_min_weight}
        focus_related_nations ==
            valid_focus_codes
            \cup {e.n2 : e \in {x \in strong : x.n1 \in valid_focus_codes}}
            \cup {e.n1 : e \in {x \in strong : x.n2 \in valid_focus_codes}}
        nations ==
            IF q.focus_ids # {}
            THEN IF q.focus_only THEN focus_related_nations
                 ELSE YearNations(d, q.year_min, q.year_max) \cup valid_focus_codes
            ELSE YearNations(d, q.year_min, q.year_max)
    IN
    IF q.focus_ids # {} /\ valid_focus_codes = {} THEN EmptyGraph
    ELSE [nodes |-> {[id |-> NodeId("N", n),
                      type |-> IF PyStr(n) \in q.focus_ids THEN "focus_nation" ELSE "nation"] :
                        n \in nations},
          edges |-> {[source |-> NodeId("N", e.n1), target |-> NodeId("N", e.n2),
                      weight |-> e.weight] :
                        e \in {x \in strong : x.n1 \in nations /\ x.n2 \in nations}}]

build_graph(d, q) ==
    CASE q.layer = "authors"  -> AuthorGraph(d, q)
      [] q.layer = "keywords" -> KeywordGraph(d, q)
      [] q.layer = "orgs"     -> OrgGraph(d, q)
      [] q.layer = "nations"  -> NationGraph(d, q)
      [] OTHER                -> EmptyGraph

(***************************************************************************)
(* Inputs                                                                  *)
(***************************************************************************)
Authorship(name, insts) == [display_name |-> name, institutions |-> insts]
Institution(name, cc)   == [display_name |-> name, country_code |-> cc]
Concept(name, score)    == [display_name |-> name, score |-> score]

Ann  == <<"A">>
Ann2 == <<" ", "a">>        \* another spelling of the same normalized name
Bob  == <<"B">>
Cyd  == <<"C">>
US   == <<"U", "S">>
KR   == <<"K", "R">>

\* W1 and W2 are the two Works of the scenario of spec section 8.
W1 == [id |-> "W1", doi |-> Empty, title |-> "T1", publication_year |-> 2020,
       venue |-> "",
       authorships |-> <<Authorship(Ann, <<>>), Authorship(Bob, <<>>)>>,
       concepts |-> <<>>]
W2 == [id |-> "W2", doi |-> Empty, title |-> "T2", publication_year |-> 2021,
       venue |-> "",
       authorships |-> <<Authorship(Bob, <<>>), Authorship(Cyd, <<>>)>>,
       concepts |-> <<>>]
\* a full record: doi, venue, institutions (one without a name), concepts
W3 == [id |-> "W3", doi |-> <<"Z", "a">>, title |-> "", publication_year |-> 2021,
       venue |-> "V",
       authorships |->
         <<Authorship(Ann2, <<Institution("MIT", US)>>),
           Authorship(Cyd, <<Institution("KU", KR), Institution("", US)>>)>>,
       concepts |-> <<Concept(<<"M", "L">>, 50), Concept(<<"c">>, NoScore)>>]
\* a second Work of the pair (Ann, Bob), listed in the other order, no year
W4 == [id |-> "W4", doi |-> Empty, title |-> "T4", publication_year |-> None,
       venue |-> "V",
       authorships |->
         <<Authorship(Bob, <<Institution("KU", KR)>>),
           Authorship(Ann2, <<Institution("MIT", US)>>)>>,
       concepts |-> <<Concept(<<"m", "l", " ">>, NoScore), Concept(<<"c">>, 50)>>]

\* a Work without authors whose three concepts include those of W4
W5 == [id |-> "W5", doi |-> Empty, title |-> "T5", publication_year |-> 2020,
       venue |-> "", authorships |-> <<>>,
       concepts |-> <<Concept(<<"k">>, NoScore), Concept(<<"M", "L">>, NoScore),
                      Concept(<<"c">>, NoScore)>>]

Records == {W1, W2, W3, W4}

\* ids handed to merge_authors: existing or not, equal or not
MergeIds == 1..3
\* the reason and user handed to merge_authors ("" for None)
Note  == <<"dup", "amy">>
Notes == {Note, <<"", "">>}

\* the inputs of the behaviours that also query the graph
GraphRecords == {W1, W2, W4, W5}
GraphMerges  == {<<2, 1>>, <<2, 2>>}

Query(layer, ymin, ymax, minw, focus, only) ==
    [layer |-> layer, year_min |-> ymin, year_max |-> ymax,
     edge_min_weight |-> minw, focus_ids |-> focus, focus_only |-> only]

YearRanges == {<<None, None>>, <<2020, 2020>>, <<2020, 2021>>, <<2021, None>>}
MinWeights == {0, 2}
IntFocus   == {{PyInt(1)}, {PyInt(7)}, {PyInt(1), PyInt(7)}}
CodeFocus  == {{PyStr(<<"u", "s">>)}, {PyStr(<<"Z", "Z">>)}, {PyStr(<<"U">>), PyInt(1)}}

\* focus ids are integers for authors, keywords and orgs, codes for nations;
\* without a focus set focus_only has no effect
\* the weight threshold is varied on the queries without a year filter
Filters == {p \in YearRanges \X MinWeights : p[2] = 0 \/ p[1] = <<None, None>>}
IdQueries ==
    {Query(l, p[1][1], p[1][2], p[2], f, o) :
        l \in {"authors", "keywords", "orgs"}, p \in Filters,
        f \in IntFocus, o \in BOOLEAN}
    \cup
    {Query(l, p[1][1], p[1][2], p[2], {}, FALSE) :
        l \in {"authors", "keywords", "orgs"}, p \in Filters}
CodeQueries ==
    {Query("nations", p[1][1], p[1][2], p[2], f, o) :
        p \in Filters, f \in CodeFocus, o \in BOOLEAN}
    \cup
    {Query("nations", p[1][1], p[1][2], p[2], {}, FALSE) : p \in Filters}

(***************************************************************************)
(* History                                                                 *)
(***************************************************************************)
\* The link rows of one Work; affiliation rows carry a surrogate id, so they
\* are counted per (author, organization, country).
LinksOf(d, wid) ==
    LET affs == {x \in d.workAffils : x.work_id = wid}
        key(x) == <<x.author_id, x.org_id, x.country_code>>
    IN  [authors  |-> {x \in d.workAuthors : x.work_id = wid},
         affils   |-> {<<k, Cardinality({x \in affs : key(x) = k})>> :
                         k \in {key(x) : x \in affs}},
         keywords |-> {x \in d.workKeywords : x.work_id = wid}]

\* What the store holds for the Work once the session's pending rows are
\* written; ok is FALSE when writing them raises.
SettledLinks(s, wid) ==
    LET r == InsertAll(s.db, s.pend)
    IN  IF s.ok /\ r.ok THEN [ok |-> TRUE, rows |-> LinksOf(r.db, wid)]
        ELSE [ok |-> FALSE, rows |-> LinksOf(EmptyDb, wid)]

NoLinks == [ok |-> TRUE, rows |-> LinksOf(EmptyDb, None)]

Entry(op, arg, s, wid) ==
    [op |-> op, arg |-> arg, raised |-> ~s.ok, error |-> s.err, work |-> wid,
     links |-> IF op = "upsert" THEN SettledLinks(s, wid) ELSE NoLinks,
     commit |-> "none"]

NoEntry == [op |-> "none", arg |-> <<>>, raised |-> FALSE, error |-> "", work |-> None,
            links |-> NoLinks, commit |-> "none"]

NoResp == [q |-> Query("none", None, None, 0, {}, FALSE), g |-> EmptyGraph]

(***************************************************************************)
(* Instances: one database file per actor                                  *)
(***************************************************************************)
\* str.isalnum() on the characters the inputs use
IsAlnum(c) == c \in DOMAIN Ord /\ c # " "

\* "".join(c if c.isalnum() or c in ('_', '-') else '_' for c in actor_name)
RECURSIVE SafeName(_)
SafeName(actor_name) ==
    IF actor_name = <<>> THEN <<>>
    ELSE LET c == Head(actor_name)
         IN  <<IF IsAlnum(c) \/ c \in {"_", "-"} THEN c ELSE "_">>
               \o SafeName(Tail(actor_name))

\* os.path.join(DATABASES_DIR, f"{safe_name}.db"): the file is named by
\* the sanitized name
get_actor_db_path(actor_name) == SafeName(actor_name)

Lab1  == <<"k", "u", " ", "1">>
Lab1u == <<"k", "u", "_", "1">>
Lab2  == <<"m", "l">>
ActorNames == {Lab1, Lab1u, Lab2}
Paths == {get_actor_db_path(a) : a \in ActorNames}

\* no file at the path
NoFile == [exists |-> FALSE, data |-> EmptyDb]

\* a is "in" while the with-block of this session's get_db is entered.  The
\* rest describes a second session on the same file: pc is the statement of
\* recompute_coauthor_edges it has reached, db its view of the tables,
\* overlap whether this session was entered when it started, links the
\* WorkAuthor rows that were committed when it committed.
Idle == [a |-> "out", pc |-> "idle", db |-> EmptyDb, overlap |-> FALSE, links |-> {}]

(***************************************************************************)
(* Behaviour                                                               *)
(***************************************************************************)
Init ==
    /\ files = [p \in Paths |-> NoFile]
    /\ conc = Idle
    /\ db = EmptyDb
    /\ committed = EmptyDb
    /\ pending = <<>>
    /\ open = FALSE
    /\ last = NoEntry
    /\ prev = NoEntry
    /\ ops = 0
    /\ resp = NoResp

\* The session the next statement runs in.
Session == [db |-> db, pend |-> pending, ok |-> TRUE, err |-> ""]

\* the call without the rollback of get_db: what the statements before the
\* raise wrote stays in the session
CallNoRollback(s, entry) ==
    /\ ops < MaxOps
    /\ resp = NoResp
    /\ db' = s.db /\ pending' = s.pend /\ open' = TRUE
    /\ conc' = [conc EXCEPT !.a = "in"]
    /\ UNCHANGED <<committed, resp, files>>
    /\ prev' = last
    /\ last' = entry
    /\ ops' = ops + 1

\* A crud call made inside `with get_db(...)`: when it raises, get_db rolls
\* the transaction back and closes the session.
Call(s, entry) ==
    /\ ops < MaxOps
    /\ resp = NoResp
    /\ IF s.ok
       THEN db' = s.db /\ pending' = s.pend /\ open' = TRUE
       ELSE db' = committed /\ pending' = <<>> /\ open' = FALSE
    /\ conc' = [conc EXCEPT !.a = IF s.ok THEN "in" ELSE "out"]
    /\ UNCHANGED <<committed, resp, files>>
    /\ prev' = last
    /\ last' = entry
    /\ ops' = ops + 1

Upsert(w) ==
    LET r == upsert_work_from_openalex(Session, w)
    IN  Call(r.s, Entry("upsert", w, r.s, r.id))

RecomputeCoauthor ==
    LET s == recompute_coauthor_edges(Session)
    IN  Call(s, Entry("recompute_coauthor", <<>>, s, None))

RecomputeOrg ==
    LET s == recompute_org_edges(Session)
    IN  Call(s, Entry("recompute_org", <<>>, s, None))

RecomputeNation ==
    LET s == recompute_nation_edges(Session)
    IN  Call(s, Entry("recompute_nation", <<>>, s, None))

Merge(kept_id, removed_id, reason, user) ==
    LET s == merge_authors(Session, kept_id, removed_id, reason, user)
    IN  Call(s, Entry("merge", <<kept_id, removed_id, reason, user>>, s, None))

\* get_db on leaving the with block: db.commit() flushes, then commits.
Commit ==
    /\ open
    /\ LET s == Flush(Session)
       IN  /\ IF s.ok
              THEN db' = s.db /\ committed' = s.db
              ELSE db' = committed /\ UNCHANGED committed
           /\ last' = [last EXCEPT !.commit = IF s.ok THEN "ok" ELSE "failed",
                                    !.error = s.err]
    /\ pending' = <<>>
    /\ open' = FALSE
    /\ conc' = [conc EXCEPT !.a = "out"]
    /\ UNCHANGED <<prev, ops, resp, files>>

\* a graph call that clears the co-author edges it has read
BuildGraphConsuming(q) ==
    /\ ~open
    /\ resp = NoResp
    /\ resp' = [q |-> q, g |-> build_graph(db, q)]
    /\ db' = [db EXCEPT !.coauthorEdges = {}]
    /\ committed' = [committed EXCEPT !.coauthorEdges = {}]
    /\ UNCHANGED <<pending, open, last, prev, ops, files, conc>>

\* The graph endpoint: its own session, which sees the committed tables.
\* Requests are serialized by the caller (spec section 5): the response is
\* returned before the next request starts.
BuildGraph(q) ==
    /\ ~open
    /\ resp = NoResp
    /\ resp' = [q |-> q, g |-> build_graph(db, q)]
    /\ UNCHANGED <<db, committed, pending, open, last, prev, ops, files, conc>>

Respond ==
    /\ resp # NoResp
    /\ resp' = NoResp
    /\ UNCHANGED <<db, committed, pending, open, last, prev, ops, files, conc>>

Next ==
    \/ \E w \in Records : Upsert(w)
    \/ RecomputeCoauthor
    \/ RecomputeOrg
    \/ RecomputeNation
    \/ \E k \in MergeIds, r \in MergeIds : Merge(k, r, Note[1], Note[2])
    \/ Commit

Spec == Init /\ [][Next]_vars

\* The same handlers over fewer inputs, together with the graph endpoint.
GraphNext ==
    \/ \E w \in GraphRecords : Upsert(w)
    \/ RecomputeCoauthor
    \/ RecomputeOrg
    \/ RecomputeNation
    \/ \E p \in GraphMerges : Merge(p[1], p[2], Note[1], Note[2])
    \/ Commit
    \/ \E q \in IdQueries : BuildGraph(q)
    \/ \E q \in CodeQueries : BuildGraph(q)
    \/ Respond

GraphSpec == Init /\ [][GraphNext]_vars

\* Merges with and without a reason and a user, over two Works.
MergePairs == {<<1, 3>>, <<3, 1>>, <<2, 1>>, <<2, 2>>}
MergeNext ==
    \/ \E w \in {W1, W2} : Upsert(w)
    \/ \E p \in MergePairs, n \in Notes : Merge(p[1], p[2], n[1], n[2])
    \/ Commit

MergeSpec == Init /\ [][MergeNext]_vars

(***************************************************************************)
(* CSV import: import_csv                                                  *)
(***************************************************************************)
\* One row of a "works" CSV that has no doi, venue or year-less columns left
\* out: source_uid is Null when the CSV has no such column.
WorkRow(source_uid, title, year, keywords) ==
    [source_uid |-> source_uid, title |-> title, year |-> year, keywords |-> keywords]
\* One row of an "authors" CSV without a work_doi column.
AuthorRow(work_title, author_name, position) ==
    [work_title |-> work_title, author_name |-> author_name, position |-> position]

\* [{"display_name": t.strip(), "score": 1.0} for t in ... if t.strip()]
RECURSIVE CsvConcepts(_)
CsvConcepts(terms) ==
    IF terms = <<>> THEN <<>>
    ELSE IF Strip(Head(terms)) = Empty THEN CsvConcepts(Tail(terms))
    ELSE <<Concept(Strip(Head(terms)), DefaultWeight)>> \o CsvConcepts(Tail(terms))

\* the record import_csv hands to upsert_work_from_openalex:
\* "id": r.get("source_uid") or r.get("doi") or ""
CsvWork(r) ==
    [id |-> IF r.source_uid \notin {Null, ""} THEN r.source_uid ELSE "",
     doi |-> Empty, title |-> r.title, publication_year |-> r.year,
     venue |-> "", authorships |-> <<>>, concepts |-> CsvConcepts(r.keywords)]

\* kind == "works": for _, r in df.iterrows(): upsert
\* (ws are the records built from the rows; the one-element sets name the
\* intermediate results)
RECURSIVE ImportWorks(_, _)
ImportWorks(s, ws) ==
    IF ws = <<>> \/ ~s.ok THEN s
    ELSE CHOOSE out \in {ImportWorks(r.s, Tail(ws)) :
                            r \in {upsert_work_from_openalex(s, Head(ws))}} : TRUE

\* kind == "authors": the Work is looked up by title (scalar_one_or_none
\* raises when several Works carry it); rows without a Work are skipped.
RECURSIVE ImportAuthors(_, _)
ImportAuthors(s, rows) ==
    IF rows = <<>> \/ ~s.ok THEN s
    ELSE
      LET r     == Head(rows)
          works == {x \in s.db.works : x.title = r.work_title}
      IN  IF Cardinality(works) > 1
          THEN [s EXCEPT !.ok = FALSE, !.err = "MultipleResultsFound"]
          ELSE IF works = {} THEN ImportAuthors(s, Tail(rows))
          ELSE LET work == CHOOSE x \in works : TRUE
                   a    == get_or_create_author(s, r.author_name, Null)
               IN  ImportAuthors(Add(a.s, [t |-> "wa", work_id |-> work.id,
                                           author_id |-> a.id,
                                           position |-> r.position]),
                                 Tail(rows))

\* The rows of the request, by kind.
ImportRows(s, req) ==
    IF req.kind = "works"
    THEN {ImportWorks(s, ws) :
             ws \in {[i \in 1..Len(req.rows) |-> CsvWork(req.rows[i])]}}
    ELSE {ImportAuthors(s, req.rows)}

\* The handler up to the end of its with block: the rows, then the three
\* recomputes.
import_csv(s, req) ==
    CHOOSE s4 \in
       {recompute_org_edges(s3) : s3 \in
          {recompute_nation_edges(s2) : s2 \in
             {recompute_coauthor_edges(s1) : s1 \in ImportRows(s, req)}}} : TRUE

(***************************************************************************)
(* Ingest behaviours: records that share identities, CSV imports           *)
(***************************************************************************)
\* W1 again, with other authors and a concept
W1b == [id |-> "W1", doi |-> Empty, title |-> "T1b", publication_year |-> 2021,
        venue |-> "",
        authorships |-> <<Authorship(Cyd, <<>>)>>,
        concepts |-> <<Concept(<<"c">>, 50)>>]
\* P1 and P2 carry one doi in two spellings under two source ids
P1 == [id |-> "P1", doi |-> <<"Z", "a">>, title |-> "P", publication_year |-> 2020,
       venue |-> "",
       authorships |-> <<Authorship(Ann, <<Institution("MIT", US), Institution("", US)>>)>>,
       concepts |-> <<>>]
P2 == [id |-> "P2", doi |-> <<"z", "A">>, title |-> "P", publication_year |-> 2020,
       venue |-> "",
       authorships |-> <<Authorship(Bob, <<>>)>>,
       concepts |-> <<>>]
\* the doi of P1 under the source id of W1
P3 == [id |-> "W1", doi |-> <<"Z", "a">>, title |-> "P", publication_year |-> 2020,
       venue |-> "",
       authorships |-> <<Authorship(Ann, <<>>)>>,
       concepts |-> <<>>]
\* a record with neither a doi nor a source id
N1 == [id |-> Null, doi |-> Empty, title |-> "N", publication_year |-> None,
       venue |-> "", authorships |-> <<>>, concepts |-> <<>>]
\* concept scores: 0, a positive score, no score
Z1 == [id |-> "Z1", doi |-> Empty, title |-> "Z", publication_year |-> 2020,
       venue |-> "", authorships |-> <<>>,
       concepts |-> <<Concept(<<"c">>, 0), Concept(<<"k">>, 50),
                      Concept(<<"M", "L">>, NoScore)>>]
\* one author with the same institution listed twice
R1 == [id |-> "R1", doi |-> Empty, title |-> "R", publication_year |-> 2020,
       venue |-> "",
       authorships |->
         <<Authorship(Bob, <<Institution("KU", KR), Institution("KU", KR)>>),
           Authorship(Cyd, <<Institution("KU", KR)>>)>>,
       concepts |-> <<>>]
\* two authorships whose names normalize to the same author
R2 == [id |-> "R2", doi |-> Empty, title |-> "R", publication_year |-> 2020,
       venue |-> "",
       authorships |-> <<Authorship(Ann, <<>>), Authorship(Ann2, <<>>)>>,
       concepts |-> <<>>]

IngestRecords == {W1, W1b, P1, P2, P3, N1, Z1, R1, R2}

CsvRequests ==
    {[kind |-> "works", rows |-> <<WorkRow(Null, "T6", 2020, <<<<" ", "c">>, <<" ">>>>)>>],
     [kind |-> "works", rows |-> <<WorkRow(Null, "T6", 2020, <<>>),
                                   WorkRow(Null, "T7", 2021, <<>>)>>],
     [kind |-> "works", rows |-> <<WorkRow("W1", "T1", 2020, <<>>)>>],
     [kind |-> "authors", rows |-> <<AuthorRow("T1", Cyd, 5)>>],
     [kind |-> "authors", rows |-> <<AuthorRow("T1b", Ann, 1)>>]}

\* The whole import request: its own get_db session, committed (or rolled
\* back when something raised) on leaving the with block.
ImportCsv(req) ==
    /\ ~open
    /\ ops < MaxOps
    /\ resp = NoResp
    /\ \E c \in {Flush(s) : s \in {import_csv(Session, req)}} :
           /\ IF c.ok
              THEN db' = c.db /\ committed' = c.db
              ELSE db' = committed /\ UNCHANGED committed
           /\ last' = [op |-> "import_csv", arg |-> req, raised |-> ~c.ok,
                       error |-> c.err,
                       work |-> None, links |-> NoLinks,
                       commit |-> IF c.ok THEN "ok" ELSE "failed"]
    /\ pending' = <<>>
    /\ open' = FALSE
    /\ prev' = last
    /\ ops' = ops + 1
    /\ UNCHANGED <<resp, files, conc>>

IngestNext ==
    \/ \E w \in IngestRecords : Upsert(w)
    \/ \E req \in CsvRequests : ImportCsv(req)
    \/ Commit

IngestSpec == Init /\ [][IngestNext]_vars

(***************************************************************************)
(* Records with absent, null or wrong-shaped fields                        *)
(***************************************************************************)
\* A record is given as a well formed base record and the one field that is
\* "absent" (no such key), "null" (None) or "wrong" (a truthy value of
\* another JSON type: a number where a string is read, a string where a dict
\* or a list of dicts is read, a dict where a number is read).
Malformed(base, field, shape) == [base |-> base, field |-> field, shape |-> shape]

\* The exception the read of the field raises, "" when it raises none:
\*   doi                     (w.get("doi") or "").lower()           AttributeError
\*   publication_year        int(w["publication_year"])             TypeError
\*   abstract_inverted_index inv.items()                            AttributeError
\*   host_venue              hv.get("display_name")                 AttributeError
\*   authorships, author, institutions, institution, concepts, concept
\*                           auth.get / inst_item.get / c.get       AttributeError
\* abstract, primary_location and best_oa_location are read behind
\* isinstance checks; .get(...) or default absorbs an absent or null field,
\* except for the entries of the institutions and concepts lists.
ReadError(field, shape) ==
    IF shape = "wrong"
    THEN CASE field \in {"doi", "abstract_inverted_index", "host_venue", "authorships",
                         "author", "institutions", "institution", "concepts",
                         "concept"} -> "AttributeError"
           [] field = "publication_year" -> "TypeError"
           [] OTHER -> ""
    ELSE IF shape = "null" /\ field \in {"institution", "concept"}
    THEN "AttributeError"
    ELSE ""

\* The record as the code reads it when the field is absent or null (or is
\* one the isinstance checks skip).
Degraded(base, field) ==
    CASE field = "doi" -> [base EXCEPT !.doi = Empty]
      [] field = "title" -> [base EXCEPT !.title = ""]
      [] field = "publication_year" -> [base EXCEPT !.publication_year = None]
      [] field = "host_venue" -> [base EXCEPT !.venue = ""]
      [] field = "authorships" -> [base EXCEPT !.authorships = <<>>]
      [] field = "author" -> [base EXCEPT !.authorships[1].display_name = Empty]
      [] field = "institutions" -> [base EXCEPT !.authorships[1].institutions = <<>>]
      [] field = "institution" ->
           [base EXCEPT !.authorships[1].institutions = Tail(@)]
      [] field = "concepts" -> [base EXCEPT !.concepts = <<>>]
      [] field = "concept" -> [base EXCEPT !.concepts = Tail(@)]
      [] OTHER -> base

\* upsert_work_from_openalex on such a record: the read that raises ends the
\* call, otherwise the field takes its default.
upsert_malformed(s, m) ==
    IF ReadError(m.field, m.shape) # ""
    THEN [s |-> [s EXCEPT !.ok = FALSE, !.err = ReadError(m.field, m.shape)], id |-> None]
    ELSE upsert_work_from_openalex(s, Degraded(m.base, m.field))

\* a record with every optional field of the model filled in
F1 == [id |-> "F1", doi |-> <<"Z", "a">>, title |-> "F", publication_year |-> 2020,
       venue |-> "V",
       authorships |-> <<Authorship(Ann, <<Institution("MIT", US)>>)>>,
       concepts |-> <<Concept(<<"c">>, 50)>>]

OptionalFields ==
    {"doi", "title", "publication_year", "abstract", "abstract_inverted_index",
     "host_venue", "primary_location", "best_oa_location", "authorships", "author",
     "institutions", "institution", "concepts", "concept"}

\* a title of another type is stored as it is and left out here
MalformedRecords ==
    ({Malformed(F1, f, sh) : f \in OptionalFields, sh \in {"null", "wrong"}}
        \ {Malformed(F1, "title", "wrong")})
    \cup {Malformed(F1, f, "absent") : f \in {"doi", "title", "authorships"}}

UpsertMalformed(m) ==
    LET r == upsert_malformed(Session, m)
    IN  Call(r.s, Entry("upsert", m, r.s, r.id))

ShapeNext ==
    \/ \E m \in MalformedRecords : UpsertMalformed(m)
    \/ Commit

ShapeSpec == Init /\ [][ShapeNext]_vars

(***************************************************************************)
(* Properties                                                              *)
(***************************************************************************)
Ids(rows) == {r.id : r \in rows}
AuthorId(d, norm) == (CHOOSE a \in d.authors : a.normalized_name = norm).id

\* Works that link both members of a pair, read from the link tables
WorksLinkingAuthors(d, a, b) ==
    {w \in d.works : /\ \E x \in d.workAuthors : x.work_id = w.id /\ x.author_id = a
                     /\ \E x \in d.workAuthors : x.work_id = w.id /\ x.author_id = b}
WorksLinkingOrgs(d, a, b) ==
    {w \in d.works : /\ \E x \in d.workAffils : x.work_id = w.id /\ x.org_id = a
                     /\ \E x \in d.workAffils : x.work_id = w.id /\ x.org_id = b}
WorksLinkingNations(d, a, b) ==
    {w \in d.works : /\ \E x \in d.workAffils : x.work_id = w.id /\ x.country_code = a
                     /\ \E x \in d.workAffils : x.work_id = w.id /\ x.country_code = b}

CoauthorExact(d) ==
    LET as == {x.author_id : x \in d.workAuthors} IN
    /\ \A e \in d.coauthorEdges :
         /\ e.a_id # e.b_id
         /\ WorksLinkingAuthors(d, e.a_id, e.b_id) # {}
         /\ e.weight = Cardinality(WorksLinkingAuthors(d, e.a_id, e.b_id))
         /\ e.evidence_count = e.weight
    /\ \A a \in as, b \in as :
         (a # b /\ WorksLinkingAuthors(d, a, b) # {}) =>
            \E e \in d.coauthorEdges : {e.a_id, e.b_id} = {a, b}
OrgExact(d) ==
    LET os == {x.org_id : x \in d.workAffils} \ {None} IN
    /\ \A e \in d.orgEdges :
         /\ e.org1_id # e.org2_id
         /\ e.org1_id # None /\ e.org2_id # None
         /\ e.weight = Cardinality(WorksLinkingOrgs(d, e.org1_id, e.org2_id))
         /\ e.weight > 0
    /\ \A a \in os, b \in os :
         (a # b /\ WorksLinkingOrgs(d, a, b) # {}) =>
            \E e \in d.orgEdges : {e.org1_id, e.org2_id} = {a, b}
NationExact(d) ==
    LET ns == {x.country_code : x \in d.workAffils} \ {Empty} IN
    /\ \A e \in d.nationEdges :
         /\ e.n1 # e.n2
         /\ e.n1 # Empty /\ e.n2 # Empty
         /\ e.weight = Cardinality(WorksLinkingNations(d, e.n1, e.n2))
         /\ e.weight > 0
    /\ \A a \in ns, b \in ns :
         (a # b /\ WorksLinkingNations(d, a, b) # {}) =>
            \E e \in d.nationEdges : {e.n1, e.n2} = {a, b}

\* C1: upserting the identical record twice in succession (same session or
\* after a commit) leaves exactly one Work for it, and the Work's author,
\* affiliation and keyword links after the second call are those after the
\* first call.
C1_IdempotentUpsert ==
    (last.op = "upsert" /\ prev.op = "upsert" /\ last.arg = prev.arg /\ ~prev.raised) =>
        /\ ~last.raised
        /\ last.work = prev.work
        /\ Cardinality({w \in db.works : w.source_uid = last.arg.id}) = 1
        /\ last.links.ok
        /\ last.links = prev.links

\* C2: right after recompute_coauthor_edges, recompute_org_edges or
\* recompute_nation_edges returns, its edge table has a row for a pair iff
\* some Work links both members (NULL organization / country ignored), and
\* the row's weight (and evidence_count) is the number of such Works.
C2_RecomputeExact ==
    /\ (last.op = "recompute_coauthor" /\ ~last.raised) => CoauthorExact(db)
    /\ (last.op = "recompute_org" /\ ~last.raised) => OrgExact(db)
    /\ (last.op = "recompute_nation" /\ ~last.raised) => NationExact(db)

CanonicalEdges(d) ==
    /\ \A e \in d.coauthorEdges : e.a_id < e.b_id
    /\ \A e \in d.orgEdges : e.org1_id < e.org2_id
    /\ \A e \in d.nationEdges : LexLess(e.n1, e.n2)
    /\ \A e, f \in d.coauthorEdges : {e.a_id, e.b_id} = {f.a_id, f.b_id} => e = f
    /\ \A e, f \in d.orgEdges : {e.org1_id, e.org2_id} = {f.org1_id, f.org2_id} => e = f
    /\ \A e, f \in d.nationEdges : {e.n1, e.n2} = {f.n1, f.n2} => e = f

\* C3: in every reachable state every edge row has its first endpoint
\* strictly below its second (ids numerically, country codes
\* lexicographically), and no unordered pair has two rows.
C3_CanonicalEdges == CanonicalEdges(db) /\ CanonicalEdges(committed)

\* Two Works list the pair (Ann, Bob) in opposite orders and the recomputed
\* table holds the pair once, with weight 2.
C3_Witness ==
    /\ last.op = "recompute_coauthor" /\ ~last.raised
    /\ \E e \in db.coauthorEdges : e.weight = 2
    /\ \E x, y \in db.workAuthors :
         /\ x.work_id # y.work_id /\ x.author_id = y.author_id
         /\ x.position = 0 /\ y.position = 1

\* the normalized identity the data model prescribes: trimmed, lowercased
TrimLower(name) == Lower(Strip(name))

UniqueIdentities(d) ==
    /\ \A a, b \in d.authors :
         (a.normalized_name = b.normalized_name
            \/ TrimLower(a.display_name) = TrimLower(b.display_name)) => a = b
    /\ \A a \in d.authors : a.normalized_name = TrimLower(a.display_name)
    /\ \A k, l \in d.keywords : k.term_norm = l.term_norm => k = l
    /\ \A k \in d.keywords : k.term_norm = TrimLower(k.term_display)
    /\ \A o, q \in d.orgs : o.name = q.name => o = q
    /\ \A v, u \in d.venues : v.name = u.name => v = u

\* C4: with serialized mutations the store never holds two Authors with one
\* normalized name (display name trimmed and lowercased), two Keywords with
\* one term_norm, two Organizations or two Venues with one name.
C4_IdentityUniqueness == UniqueIdentities(db) /\ UniqueIdentities(committed)

\* Records spelling an author "A" and " a", a keyword "ML" and "ml ", and
\* naming one organization and one venue twice were upserted, and each
\* identity is stored once.
C4_Witness ==
    /\ {w.source_uid : w \in db.works} = {"W1", "W3", "W4"}
    /\ Cardinality({a \in db.authors : a.normalized_name = <<"a">>}) = 1
    /\ Cardinality({k \in db.keywords : k.term_norm = <<"m", "l">>}) = 1
    /\ Cardinality({o \in db.orgs : o.name = "MIT"}) = 1
    /\ Cardinality({v \in db.venues : v.name = "V"}) = 1
    /\ \A w \in db.works : \E x \in db.workAuthors :
          x.work_id = w.id /\ x.author_id = AuthorId(db, <<"a">>)

EdgeWeight(d, a, b) ==
    IF \E e \in d.coauthorEdges : {e.a_id, e.b_id} = {a, b}
    THEN (CHOOSE e \in d.coauthorEdges : {e.a_id, e.b_id} = {a, b}).weight
    ELSE 0

References(d, b) ==
    \/ \E x \in d.workAuthors : x.author_id = b
    \/ \E x \in d.workAffils : x.author_id = b
    \/ \E x \in d.aliases : x.author_id = b
    \/ \E x \in d.coauthorEdges : x.a_id = b \/ x.b_id = b
    \/ \E x \in d.authors : x.id = b

\* C5: for existing authors A (kept) and B (removed), after
\* merge_authors(A, B) the co-author weight of (A, C) is the former weight of
\* (A, C) plus the former weight of (B, C) for every other author C, and no
\* row references B.  (Stated for merges that start on a store whose
\* co-author edges are current and whose session has nothing pending.)
C5_MergeConservation ==
    [][(/\ last'.op = "merge" /\ ops' = ops + 1
        /\ last'.arg[1] # last'.arg[2]
        /\ {last'.arg[1], last'.arg[2]} \subseteq Ids(db.authors)
        /\ pending = <<>> /\ CoauthorExact(db))
       => (/\ ~last'.raised
           /\ \A c \in Ids(db.authors) \ {last'.arg[1], last'.arg[2]} :
                EdgeWeight(db', last'.arg[1], c)
                  = EdgeWeight(db, last'.arg[1], c) + EdgeWeight(db, last'.arg[2], c)
           /\ ~References(db', last'.arg[2]))]_vars

(***************************************************************************)
(* Properties of the graph view                                            *)
(***************************************************************************)
NodeIds(g) == {n.id : n \in g.nodes}
EdgeEnds(g) == {<<e.source, e.target>> : e \in g.edges}
Answered == resp # NoResp
NoYears(q) == q.year_min = None /\ q.year_max = None

\* a year inside [lo, hi]; a bound that is None is open, no year is outside
\* every given bound
InRange(y, lo, hi) ==
    /\ (lo = None \/ (y # None /\ lo <= y))
    /\ (hi = None \/ (y # None /\ y <= hi))

WorksInRange(d, q) == {w.id : w \in {x \in d.works : InRange(x.year, q.year_min, q.year_max)}}

\* The entities of a layer linked to a Work of the query's year range.
LinkedInRange(d, q) ==
    CASE q.layer = "authors" ->
           {x.author_id : x \in {y \in d.workAuthors : y.work_id \in WorksInRange(d, q)}}
      [] q.layer = "keywords" ->
           {x.keyword_id : x \in {y \in d.workKeywords : y.work_id \in WorksInRange(d, q)}}
      [] q.layer = "orgs" ->
           {x.org_id : x \in {y \in d.workAffils :
                                y.work_id \in WorksInRange(d, q) /\ y.org_id # None}}
      [] q.layer = "nations" ->
           {x.country_code : x \in {y \in d.workAffils :
                                y.work_id \in WorksInRange(d, q) /\ y.country_code # Empty}}

\* The existing entities of a layer: rows for authors, keywords and
\* organizations, the country codes of the affiliations for nations.
Entities(d, layer) ==
    CASE layer = "authors"  -> Ids(d.authors)
      [] layer = "keywords" -> Ids(d.keywords)
      [] layer = "orgs"     -> Ids(d.orgs)
      [] layer = "nations"  -> {x.country_code : x \in d.workAffils} \ {Empty}

\* The node of an entity: "A1", "K2", "O3", "NUS".
Node(layer, x) ==
    CASE layer = "authors"  -> <<"A">> \o Str(x)
      [] layer = "keywords" -> <<"K">> \o Str(x)
      [] layer = "orgs"     -> <<"O">> \o Str(x)
      [] layer = "nations"  -> <<"N">> \o x

\* The entity a supplied focus id or code names (codes in upper case).
FocusEntity(f) == IF f.isstr THEN Upper(f.str) ELSE f.int
\* The focus ids a layer can resolve at all: integers, or codes for nations.
Named(q) == {f \in q.focus_ids : f.isstr <=> q.layer = "nations"}
Resolves(d, q, f) == f \in Named(q) /\ FocusEntity(f) \in Entities(d, q.layer)
Resolved(d, q) == {FocusEntity(f) : f \in {x \in q.focus_ids : Resolves(d, q, x)}}

\* The Works of spec section 8 were upserted into an empty store and the
\* co-author edges recomputed, in this order.
Scenario ==
    /\ ops = 3
    /\ last.op = "recompute_coauthor" /\ ~last.raised
    /\ prev.op = "upsert" /\ ~prev.raised /\ prev.arg = W2
    /\ {<<w.id, w.source_uid>> : w \in db.works} = {<<1, "W1">>, <<2, "W2">>}

\* C6: from an empty store, upsert W1 (2020, authors A, B), upsert W2 (2021,
\* authors B, C) and recompute_coauthor_edges in one session without a
\* commit leave exactly the edges (A,B,1) and (B,C,1); after the commit
\* build_graph('authors',2020,2020,0) and
\* build_graph('authors',2020,2021,0,[A],focus_only) both return nodes {A,B}
\* and the edge (A,B).
C6_Scenario ==
    LET A == AuthorId(db, <<"a">>)
        B == AuthorId(db, <<"b">>)
        C == AuthorId(db, <<"c">>)
        AB == [nodes |-> {Node("authors", A), Node("authors", B)},
               ends  |-> {<<Node("authors", A), Node("authors", B)>>}]
        seen == [nodes |-> NodeIds(resp.g), ends |-> EdgeEnds(resp.g)]
    IN
    /\ (Scenario /\ last.commit = "none" /\ committed = EmptyDb) =>
          {<<e.a_id, e.b_id, e.weight>> : e \in db.coauthorEdges}
             = {<<A, B, 1>>, <<B, C, 1>>}
    /\ (Scenario /\ last.commit = "ok"
          /\ resp.q = Query("authors", 2020, 2020, 0, {}, FALSE)) => seen = AB
    /\ (Scenario /\ last.commit = "ok"
          /\ resp.q = Query("authors", 2020, 2021, 0, {PyInt(A)}, TRUE)) => seen = AB

\* C7: author layer, focus = {A} with A existing, focus_only, no year
\* filter: the nodes are exactly A and every x joined to A by a co-author
\* edge (either stored order) of weight >= edge_min_weight.
C7_EgoNetwork ==
    (/\ Answered /\ resp.q.layer = "authors" /\ resp.q.focus_only /\ NoYears(resp.q)
     /\ Cardinality(resp.q.focus_ids) = 1
     /\ \A f \in resp.q.focus_ids : Resolves(db, resp.q, f))
    => NodeIds(resp.g) =
         {Node("authors", x) : x \in Resolved(db, resp.q) \cup
             {y \in {e.a_id : e \in db.coauthorEdges} \cup {e.b_id : e \in db.coauthorEdges} :
                 \E e \in db.coauthorEdges, a \in Resolved(db, resp.q) :
                     e.weight >= resp.q.edge_min_weight /\ {e.a_id, e.b_id} = {a, y}}}

\* C8: in every layer and focus mode a focus id or code that resolves to no
\* existing entity of the layer is never a node, and a non-empty focus set
\* none of whose members resolves yields the empty graph.
C8_UnresolvedFocus ==
    (Answered /\ resp.q.focus_ids # {}) =>
       /\ \A f \in Named(resp.q) :
            ~Resolves(db, resp.q, f)
               => Node(resp.q.layer, FocusEntity(f)) \notin NodeIds(resp.g)
       /\ Resolved(db, resp.q) = {} => resp.g = EmptyGraph

\* every node that is not a focus entity is linked to a Work in the range
NonFocusInRange ==
    \A x \in Entities(db, resp.q.layer) \cup LinkedInRange(db, resp.q) :
       (/\ Node(resp.q.layer, x) \in NodeIds(resp.g)
        /\ x \notin {FocusEntity(f) : f \in Named(resp.q)})
       => x \in LinkedInRange(db, resp.q)

\* keyword counts and weights count the in-range Works only (in focus-only
\* mode: the in-range Works holding a resolved focus keyword)
KeywordCountsInRange ==
    LET q == resp.q
        kws(w) == {x.keyword_id : x \in {y \in db.workKeywords : y.work_id = w}}
        src == {w \in WorksInRange(db, q) :
                  (q.focus_ids # {} /\ q.focus_only) => kws(w) \cap Resolved(db, q) # {}}
        all == {x.keyword_id : x \in db.workKeywords} \cup Ids(db.keywords)
    IN  /\ \A n \in resp.g.nodes : \A k \in all :
              n.id = Node("keywords", k)
                 => n.count = Cardinality({w \in src : k \in kws(w)})
        /\ \A e \in resp.g.edges : \A k1, k2 \in all :
              (e.source = Node("keywords", k1) /\ e.target = Node("keywords", k2))
                 => e.weight = Cardinality({w \in src : {k1, k2} \subseteq kws(w)})

\* C9: with a year filter, in every focus mode of the author, organization
\* and nation layers every non-focus node is linked to a Work whose year is
\* in [year_min, year_max]; in the keyword layer counts and weights come
\* from the Works in the range only.
C9_YearFilter ==
    (Answered /\ ~NoYears(resp.q)) =>
       IF resp.q.layer = "keywords" THEN KeywordCountsInRange ELSE NonFocusInRange

\* C9 as amended: the same, except that the organization and nation layers
\* apply no year filter to the neighbours they add with focus_only = true.
C9_YearFilterAmended ==
    (Answered /\ ~NoYears(resp.q)) =>
       IF resp.q.layer = "keywords" THEN KeywordCountsInRange
       ELSE (resp.q.layer \in {"orgs", "nations"} /\ resp.q.focus_ids # {}
               /\ resp.q.focus_only)
            \/ NonFocusInRange

\* An author query with a year filter returned a node that is no focus
\* entity while an author of another year was left out.
C9_Witness ==
    /\ Answered /\ ~NoYears(resp.q) /\ resp.q.layer = "authors"
    /\ \E a \in Ids(db.authors) :
          PyInt(a) \notin resp.q.focus_ids /\ Node("authors", a) \in NodeIds(resp.g)
    /\ \E a \in Ids(db.authors) :
          /\ Node("authors", a) \notin NodeIds(resp.g)
          /\ \E x \in db.workAuthors : x.author_id = a

\* C10: in each layer, with a non-empty resolvable focus set and focus_only
\* = false, the nodes are the entities linked to a Work passing the year
\* filter together with the resolved focus entities.
C10_HighlightMode ==
    (/\ Answered /\ resp.q.focus_ids # {} /\ ~resp.q.focus_only
     /\ \A f \in resp.q.focus_ids : Resolves(db, resp.q, f))
    => NodeIds(resp.g) =
         {Node(resp.q.layer, x) :
             x \in (LinkedInRange(db, resp.q) \cap Entities(db, resp.q.layer))
                     \cup Resolved(db, resp.q)}

(***************************************************************************)
(* Properties of the returned edges                                        *)
(***************************************************************************)
\* The edges of a layer as <<source node, target node, weight>>: the stored
\* rows for authors, organizations and nations; for keywords every pair
\* k1 < k2 with the number of in-range Works carrying both, when positive.
LayerEdges(d, q) ==
    CASE q.layer = "authors" ->
           {<<Node("authors", e.a_id), Node("authors", e.b_id), e.weight>> :
               e \in d.coauthorEdges}
      [] q.layer = "orgs" ->
           {<<Node("orgs", e.org1_id), Node("orgs", e.org2_id), e.weight>> :
               e \in d.orgEdges}
      [] q.layer = "nations" ->
           {<<Node("nations", e.n1), Node("nations", e.n2), e.weight>> :
               e \in d.nationEdges}
      [] q.layer = "keywords" ->
           LET ks == {x.keyword_id : x \in d.workKeywords}
               both(k1, k2) ==
                   {w \in WorksInRange(d, q) :
                       /\ \E x \in d.workKeywords : x.work_id = w /\ x.keyword_id = k1
                       /\ \E x \in d.workKeywords : x.work_id = w /\ x.keyword_id = k2}
           IN  {<<Node("keywords", p[1]), Node("keywords", p[2]),
                  Cardinality(both(p[1], p[2]))>> :
                   p \in {r \in ks \X ks : r[1] < r[2] /\ both(r[1], r[2]) # {}}}

ReturnedEdges(g) == {<<e.source, e.target, e.weight>> : e \in g.edges}

\* C11: in every layer and focus mode the returned edges are exactly the
\* edges of the layer whose weight is >= edge_min_weight and whose two
\* endpoints are returned nodes.
C11_EdgeSet ==
    Answered =>
       ReturnedEdges(resp.g) =
          {t \in LayerEdges(db, resp.q) :
              /\ t[3] >= resp.q.edge_min_weight
              /\ t[1] \in NodeIds(resp.g) /\ t[2] \in NodeIds(resp.g)}

(***************************************************************************)
(* Upsert of a record that matches a Work                                  *)
(***************************************************************************)
OrgId(d, name) == (CHOOSE o \in d.orgs : o.name = name).id
KeywordId(d, norm) == (CHOOSE k \in d.keywords : k.term_norm = norm).id
NameOf(auth) == IF auth.display_name # Empty THEN auth.display_name ELSE Unknown

\* The (author, organization, country) named by institution entry j of
\* authorship i; an entry without a name names no organization.
AffilKey(d, w, i, j) ==
    LET inst == w.authorships[i].institutions[j]
    IN  <<AuthorId(d, AuthorNorm(NameOf(w.authorships[i]))),
          IF inst.display_name # "" THEN OrgId(d, inst.display_name) ELSE None,
          inst.country_code>>
AffilEntries(w) ==
    {p \in (1..Len(w.authorships)) \X (1..2) :
        p[2] <= Len(w.authorships[p[1]].institutions)}

\* The links a record names: one author link per authorship with its
\* position, one affiliation per institution entry, one keyword per concept.
RecordLinks(d, w, wid) ==
    [authors  |-> {<<AuthorId(d, AuthorNorm(NameOf(w.authorships[i]))), i - 1>> :
                      i \in 1..Len(w.authorships)},
     affils   |-> {<<AffilKey(d, w, p[1], p[2]),
                     Cardinality({q \in AffilEntries(w) :
                        AffilKey(d, w, q[1], q[2]) = AffilKey(d, w, p[1], p[2])})>> :
                      p \in AffilEntries(w)},
     keywords |-> {KeywordId(d, KeywordNorm(w.concepts[i].display_name)) :
                      i \in 1..Len(w.concepts)}]

\* The same view of the stored links of a Work.
StoredLinks(rows) ==
    [authors  |-> {<<x.author_id, x.position>> : x \in rows.authors},
     affils   |-> rows.affils,
     keywords |-> {x.keyword_id : x \in rows.keywords}]

\* C12: when an upsert matches an existing Work and returns, the Work's
\* author, affiliation and keyword links (once the session's rows are
\* written) are exactly those the record names, each once, and the links
\* of every other Work are what they were before the call.
C12_UpsertReplacesLinks ==
    [][(/\ ops' = ops + 1
        /\ last'.op = "upsert"
        /\ ~last'.raised
        /\ last'.work \in Ids(db.works)
        /\ SettledLinks(Session, last'.work).ok)
       =>
       (/\ last'.links.ok
        /\ Cardinality(last'.links.rows.authors) = Len(last'.arg.authorships)
        /\ StoredLinks(last'.links.rows) = RecordLinks(db', last'.arg, last'.work)
        /\ \A x \in db.works :
              x.id # last'.work =>
                 SettledLinks(Session', x.id) = SettledLinks(Session, x.id))]_vars

(***************************************************************************)
(* Resolution of the existing Work                                         *)
(***************************************************************************)
\* Works whose doi is the record's doi up to letter case
ByDoi(d, w) ==
    IF w.doi = Empty THEN {}
    ELSE {x \in d.works : x.doi # Empty /\ Lower(x.doi) = Lower(w.doi)}
\* Works whose (source_uid, source) is the record's source id under OpenAlex
ByUid(d, w) ==
    IF w.id \in {Null, ""} THEN {}
    ELSE {x \in d.works : x.source_uid = w.id /\ x.source = "OpenAlex"}

UpsertReturns == ops' = ops + 1 /\ last'.op = "upsert" /\ ~last'.raised

\* C13: a record that carries a doi resolves to the Work with that doi
\* whatever the letter case, also when another Work has the record's
\* source id; the (source_uid, source) pair is used only when the record
\* has no doi.
C13_DoiFirst ==
    [][UpsertReturns =>
       LET w == last'.arg IN
       /\ ByDoi(db, w) # {} => last'.work \in Ids(ByDoi(db, w))
       /\ (w.doi = Empty /\ ByUid(db, w) # {}) => last'.work \in Ids(ByUid(db, w))
       /\ (w.doi # Empty /\ ByDoi(db, w) = {}) => last'.work \notin Ids(db.works)]_vars

\* C13 (amended): the doi match comes first, whatever the letter case and
\* whatever Work has the record's source id; the (source_uid, source) pair
\* is used when the record has no doi or no Work carries its doi; a record
\* matched by neither creates a Work.
C13_DoiFirstAmended ==
    [][UpsertReturns =>
       LET w == last'.arg IN
       /\ ByDoi(db, w) # {} => last'.work \in Ids(ByDoi(db, w))
       /\ (ByDoi(db, w) = {} /\ ByUid(db, w) # {}) => last'.work \in Ids(ByUid(db, w))
       /\ (ByDoi(db, w) = {} /\ ByUid(db, w) = {}) =>
             /\ last'.work \notin Ids(db.works)
             /\ last'.work \in Ids(db'.works)]_vars

\* a record in another letter case than the stored doi resolved to the Work
\* with that doi while a different Work holds the record's source id
C13_Witness ==
    /\ last.op = "upsert" /\ ~last.raised
    /\ last.arg.doi # Empty
    /\ \E x \in db.works, y \in db.works :
          /\ x.id # y.id
          /\ x.doi # Empty /\ x.doi # last.arg.doi /\ x.doi = Lower(last.arg.doi)
          /\ y.source_uid = last.arg.id
          /\ last.work = x.id

(***************************************************************************)
(* Work uniqueness                                                         *)
(***************************************************************************)
\* C14: whatever records were upserted (with or without a doi, with or
\* without a source id, from OpenAlex or from a works CSV), the store holds
\* at most one Work per non-null doi and at most one Work per
\* (source_uid, source) pair, and no upsert fails on a uniqueness
\* constraint of works.
C14_WorkUniqueness ==
    /\ \A x \in db.works, y \in db.works :
          x.id # y.id =>
             /\ x.doi # Empty => x.doi # y.doi
             /\ x.source_uid # Null =>
                   <<x.source_uid, x.source>> # <<y.source_uid, y.source>>
    /\ last.error # "uq_works"

(***************************************************************************)
(* Absent, null and wrong-shaped fields                                    *)
(***************************************************************************)
WorkOf(d, wid) == CHOOSE x \in d.works : x.id = wid

\* C15: upsert_work_from_openalex returns a Work and does not raise for a
\* record one of whose optional fields is absent, null or of the wrong
\* shape; a missing title is stored as "(untitled)" and a missing author
\* name links the author "Unknown".
C15_TolerantUpsert ==
    last.op = "upsert" =>
       /\ ~last.raised
       /\ last.work \in Ids(db.works)
       /\ (last.arg.field = "title" => WorkOf(db, last.work).title = Untitled)
       /\ (last.arg.field = "author" /\ last.links.ok =>
              \E x \in last.links.rows.authors :
                 x.author_id = AuthorId(db, AuthorNorm(Unknown)))

(***************************************************************************)
(* The merge as a unit of work                                             *)
(***************************************************************************)
Moved(rows, kept_id, removed_id) ==
    {IF x.author_id = removed_id THEN [x EXCEPT !.author_id = kept_id] ELSE x : x \in rows}

\* Every effect of merge_authors(kept_id, removed_id) on the store c, in c2.
AllMergeEffects(c, c2, kept_id, removed_id) ==
    /\ c2.workAuthors = Moved(c.workAuthors, kept_id, removed_id)
    /\ c2.workAffils = Moved(c.workAffils, kept_id, removed_id)
    /\ c2.aliases = Moved(c.aliases, kept_id, removed_id)
    /\ c2.authors = {x \in c.authors : x.id # removed_id}
    /\ c.merges \subseteq c2.merges
    /\ \E m \in c2.merges \ c.merges :
          /\ c2.merges \ c.merges = {m}
          /\ m.entity_type = "author"
          /\ m.kept_id = Str(kept_id) /\ m.removed_id = Str(removed_id)
    /\ CoauthorExact(c2) /\ OrgExact(c2) /\ NationExact(c2)

\* the call before `last` ended its session
FirstInSession == prev.op = "none" \/ prev.raised \/ prev.commit # "none"

SharedWorks(d, a, b) ==
    {x.work_id : x \in {y \in d.workAuthors : y.author_id = a}}
       \cap {x.work_id : x \in {y \in d.workAuthors : y.author_id = b}}

\* C17: merge_authors(kept, removed) on two authors linked to the same Work
\* completes without error; afterwards the Work has exactly one link to
\* kept and none to removed, and no coauthor edge joins an author to itself.
C17_MergeSharedWork ==
    [][(/\ ops' = ops + 1
        /\ last'.op = "merge"
        /\ last'.arg[1] # last'.arg[2]
        /\ SharedWorks(db, last'.arg[1], last'.arg[2]) # {})
       =>
       (/\ ~last'.raised
        /\ \A wid \in SharedWorks(db, last'.arg[1], last'.arg[2]) :
              /\ Cardinality({x \in db'.workAuthors :
                    x.work_id = wid /\ x.author_id = last'.arg[1]}) = 1
              /\ ~\E x \in db'.workAuthors :
                    x.work_id = wid /\ x.author_id = last'.arg[2]
        /\ \A e \in db'.coauthorEdges : e.a_id # e.b_id)]_vars

(***************************************************************************)
(* The merge log                                                           *)
(***************************************************************************)
PendingMerges(p) == {i \in 1..Len(p) : p[i].t = "merge"}

\* C18: every merge_authors call that returns has appended exactly one
\* MergeLog row (entity_type 'author', str(kept_id), str(removed_id), the
\* reason and the user given) and left the other rows as they were; no
\* other call touches the log; and no step modifies or deletes a committed
\* row: the committed log only grows, by one row per merge of the session.
C18_MergeLogAppendOnly ==
    [][/\ committed.merges \subseteq committed'.merges
       /\ (ops' = ops + 1 /\ ~last'.raised) =>
             IF last'.op = "merge"
             THEN /\ db.merges \subseteq db'.merges
                  /\ PendingMerges(pending') = {}
                  /\ \E m \in db'.merges \ db.merges :
                        /\ db'.merges \ db.merges = {m}
                        /\ m.id \notin Ids(db.merges)
                        /\ m.entity_type = "author"
                        /\ m.kept_id = Str(last'.arg[1])
                        /\ m.removed_id = Str(last'.arg[2])
                        /\ m.reason = last'.arg[3]
                        /\ m.user = last'.arg[4]
             ELSE db'.merges = db.merges /\ PendingMerges(pending') = {}
       /\ (ops' = ops /\ last'.commit = "ok") =>
             /\ committed'.merges = db.merges
             /\ PendingMerges(pending) = {}]_vars

\* two merges of a session have been committed and the log holds their two
\* rows in call order
C18_Witness ==
    /\ last.op = "merge" /\ prev.op = "merge" /\ last.commit = "ok"
    /\ prev.commit = "none" /\ ~prev.raised
    /\ Cardinality(committed.merges) = 2
    /\ \E m \in committed.merges, n \in committed.merges :
          /\ m.id < n.id
          /\ m.kept_id = Str(prev.arg[1]) /\ m.removed_id = Str(prev.arg[2])
          /\ n.kept_id = Str(last.arg[1]) /\ n.removed_id = Str(last.arg[2])
          /\ m.kept_id # m.removed_id
          /\ <<m.kept_id, m.removed_id>> # <<n.kept_id, n.removed_id>>

(***************************************************************************)
(* Keyword weights                                                         *)
(***************************************************************************)
\* C19: after an upsert, the WorkKeyword row of every concept of the record
\* has the concept's score as its weight, for every supplied score
\* including 0, and 1.0 only when the concept has no score; its extractor
\* is 'openalex'.
C19_KeywordWeight ==
    (last.op = "upsert" /\ ~last.raised /\ last.links.ok) =>
       \A i \in 1..Len(last.arg.concepts) :
          LET c == last.arg.concepts[i] IN
          \E x \in last.links.rows.keywords :
             /\ x.keyword_id = KeywordId(db, KeywordNorm(c.display_name))
             /\ x.weight = IF c.score = NoScore THEN DefaultWeight ELSE c.score
             /\ x.extractor = "openalex"

(***************************************************************************)
(* Author positions and affiliations                                       *)
(***************************************************************************)
\* the (author, organization) pairs the record names
NamedPairs(d, w) ==
    {<<AffilKey(d, w, p[1], p[2])[1], AffilKey(d, w, p[1], p[2])[2]>> :
        p \in {q \in AffilEntries(w) :
                 w.authorships[q[1]].institutions[q[2]].display_name # ""}}

\* C20: after an upsert the rows of the record can be written, entry i of
\* the authorship list (counting from 0) is linked by a WorkAuthor row with
\* position i, and the Work has exactly one WorkAffiliation row for every
\* (author, organization) pair the record names, the organization being
\* the one get_or_create_org finds by that name.
C20_AuthorOrder ==
    (last.op = "upsert" /\ ~last.raised) =>
       /\ last.links.ok
       /\ \A i \in 1..Len(last.arg.authorships) :
             <<AuthorId(db, AuthorNorm(NameOf(last.arg.authorships[i]))), i - 1>>
                \in StoredLinks(last.links.rows).authors
       /\ \A pair \in NamedPairs(db, last.arg) :
             \E e \in last.links.rows.affils :
                /\ {x \in last.links.rows.affils :
                      x[1][1] = pair[1] /\ x[1][2] = pair[2]} = {e}
                /\ e[2] = 1

(***************************************************************************)
(* The identity helpers called on their own                                *)
(***************************************************************************)
\* crud.get_or_create_* called inside `with get_db(...)`, as import_csv and
\* upsert_work_from_openalex call them; the entry keeps the id of the row
\* returned.
GetOrCreateAuthor(display_name, orcid) ==
    LET r == get_or_create_author(Session, display_name, orcid)
    IN  Call(r.s, Entry("get_or_create_author", <<display_name, orcid>>, r.s, r.id))

GetOrCreateOrg(name, country) ==
    LET r == get_or_create_org(Session, name, country)
    IN  Call(r.s, Entry("get_or_create_org", <<name, country>>, r.s, r.id))

GetOrCreateVenue(name, vtype) ==
    LET r == get_or_create_venue(Session, name, vtype)
    IN  Call(r.s, Entry("get_or_create_venue", <<name, vtype>>, r.s, r.id))

GetOrCreateKeyword(term, display) ==
    LET r == get_or_create_keyword(Session, term, display)
    IN  Call(r.s, Entry("get_or_create_keyword", <<term, display>>, r.s, r.id))

AuthorNames == {Ann, Ann2, Bob}
Orcids      == {Null, "0000-0001"}
OrgNames    == {"MIT", "KU"}
Countries   == {US, KR}
VenueNames  == {"V", "J"}
VenueTypes  == {Null, "journal"}
Terms       == {<<"M", "L">>, <<"m", "l", " ">>, <<"c">>}
Displays    == {Empty, <<"C">>}

EntityNext ==
    \/ \E n \in AuthorNames, o \in Orcids : GetOrCreateAuthor(n, o)
    \/ \E n \in OrgNames, c \in Countries : GetOrCreateOrg(n, c)
    \/ \E n \in VenueNames, t \in VenueTypes : GetOrCreateVenue(n, t)
    \/ \E t \in Terms, d \in Displays : GetOrCreateKeyword(t, d)
    \/ Commit

EntitySpec == Init /\ [][EntityNext]_vars

GetOrCreateOps ==
    {"get_or_create_author", "get_or_create_org", "get_or_create_venue",
     "get_or_create_keyword"}

\* The ids of the rows of d that carry the identity key of the call.
KeyIds(d, op, arg) ==
    CASE op = "get_or_create_author" ->
           {a.id : a \in {x \in d.authors : x.normalized_name = Lower(Strip(arg[1]))}}
      [] op = "get_or_create_org" ->
           {o.id : o \in {x \in d.orgs : x.name = arg[1]}}
      [] op = "get_or_create_venue" ->
           {v.id : v \in {x \in d.venues : x.name = arg[1]}}
      [] op = "get_or_create_keyword" ->
           {k.id : k \in {x \in d.keywords : x.term_norm = Lower(Strip(arg[1]))}}

\* The alias rows the store holds once the pending rows are written.
SettledAliases(d, p) == InsertAll(d, p).db.aliases

\* C21: a get_or_create call whose identity key already exists returns the
\* existing row and leaves every table and the pending rows as they were,
\* whatever display name, ORCID, country or venue type it supplies; the
\* call that creates an Author adds exactly one AuthorAlias, with source
\* "ingest", confidence 0.9 and the raw display name of the call, and no
\* other call adds an alias.
C21_GetOrCreateFrame ==
    [][(ops' = ops + 1 /\ last'.op \in GetOrCreateOps) =>
         LET found == KeyIds(db, last'.op, last'.arg)
             was   == SettledAliases(db, pending)
             now   == SettledAliases(db', pending')
         IN  /\ found # {} =>
                  /\ db' = db
                  /\ pending' = pending
                  /\ last'.work \in found
             /\ now \ was =
                  IF found = {} /\ last'.op = "get_or_create_author"
                  THEN {[id |-> NextId(was), author_id |-> last'.work,
                         raw_name |-> last'.arg[1], source |-> "ingest",
                         confidence |-> 90]}
                  ELSE {}
             /\ was \subseteq now]_vars

\* an Author found again under another spelling and another ORCID: the row
\* keeps the display name and the ORCID of the call that created it, and its
\* one alias
C21_Witness ==
    /\ last.op = "get_or_create_author" /\ prev.op = "get_or_create_author"
    /\ ~last.raised
    /\ last.work = prev.work
    /\ last.arg[1] # prev.arg[1] /\ last.arg[2] # prev.arg[2]
    /\ \E a \in db.authors :
         /\ a.id = last.work
         /\ a.display_name = prev.arg[1] /\ a.orcid = prev.arg[2]
    /\ Cardinality({x \in SettledAliases(db, pending) : x.author_id = last.work}) = 1

\* The ids of the entity rows of d that are absent from e.
Deleted(d, e) ==
    [works    |-> Ids(d.works) \ Ids(e.works),
     authors  |-> Ids(d.authors) \ Ids(e.authors),
     orgs     |-> Ids(d.orgs) \ Ids(e.orgs),
     venues   |-> Ids(d.venues) \ Ids(e.venues),
     keywords |-> Ids(d.keywords) \ Ids(e.keywords)]

NoneDeleted ==
    [works |-> {}, authors |-> {}, orgs |-> {}, venues |-> {}, keywords |-> {}]

\* C22: no call that returns deletes a Work, Organization, Venue or Keyword
\* row; the only Author row a call deletes is the one whose id is the
\* removed_id of a merge_authors call; and a row leaves the committed store
\* only when a call of the committing session has deleted it.
C22_NoEntityDeleted ==
    [][
       /\ (ops' = ops + 1 /\ ~last'.raised) =>
            Deleted(db, db') =
              IF last'.op = "merge"
              THEN [NoneDeleted EXCEPT
                      !.authors = {last'.arg[2]} \cap Ids(db.authors)]
              ELSE NoneDeleted
       /\ Deleted(committed, committed') =
            [NoneDeleted EXCEPT
               !.authors = Deleted(committed, committed').authors
                             \cap Deleted(committed, db).authors]
      ]_vars

\* a merge has deleted the committed Author 1 and nothing else: the other
\* Author and both Works are still there
C22_Witness ==
    /\ last.op = "merge" /\ ~last.raised /\ last.arg[2] = 1
    /\ Deleted(committed, db) = [NoneDeleted EXCEPT !.authors = {1}]
    /\ Cardinality(committed.works) = 2
    /\ Cardinality(db.authors) >= 1

(***************************************************************************)
(* Operations addressed to an actor's instance                             *)
(***************************************************************************)
\* An operation on an actor reaches the file at get_actor_db_path(actor);
\* the entry keeps the actor name it was addressed to.
ActorEntry(op, actor_name, ok) ==
    [NoEntry EXCEPT !.op = op, !.arg = <<actor_name>>, !.raised = ~ok]

OnActor(entry) ==
    /\ ops < MaxOps
    /\ last' = entry
    /\ prev' = last
    /\ ops' = ops + 1
    /\ UNCHANGED <<db, committed, pending, open, resp, conc>>

\* init_db: create_all creates the file and its tables when they are missing
InitDb(actor_name) ==
    /\ files' = [files EXCEPT ![get_actor_db_path(actor_name)].exists = TRUE]
    /\ OnActor(ActorEntry("init_db", actor_name, TRUE))

\* ingest_openalex for one fetched record: init_db, upsert, the three
\* recomputes, and the commit of get_db (or its rollback)
IngestOn(actor_name, w) ==
    LET p == get_actor_db_path(actor_name) IN
    \E c \in {Flush(s3) :
               s3 \in {recompute_org_edges(s2) :
               s2 \in {recompute_nation_edges(s1) :
               s1 \in {recompute_coauthor_edges(r.s) :
               r  \in {upsert_work_from_openalex(
                          [db |-> files[p].data, pend |-> <<>>,
                           ok |-> TRUE, err |-> ""], w)}}}}} :
        /\ files' = [files EXCEPT ![p] =
                       [exists |-> TRUE, data |-> IF c.ok THEN c.db ELSE @.data]]
        /\ OnActor(ActorEntry("ingest", actor_name, c.ok))

\* merge_authors in a get_db session on an initialised instance
MergeOn(actor_name, kept_id, removed_id) ==
    LET p == get_actor_db_path(actor_name) IN
    /\ files[p].exists
    /\ \E c \in {Flush(s) :
                  s \in {merge_authors([db |-> files[p].data, pend |-> <<>>,
                                        ok |-> TRUE, err |-> ""],
                                       kept_id, removed_id, Note[1], Note[2])}} :
        /\ files' = [files EXCEPT ![p].data = IF c.ok THEN c.db ELSE @]
        /\ OnActor(ActorEntry("merge", actor_name, c.ok))

\* delete_actor_db: os.remove(db_path) when the file exists
DeleteActorDb(actor_name) ==
    /\ files' = [files EXCEPT ![get_actor_db_path(actor_name)] = NoFile]
    /\ OnActor(ActorEntry("delete_actor_db", actor_name, TRUE))

\* get_actor_stats: whether the file exists, and the row counts
get_actor_stats(fs, actor_name) ==
    LET f == fs[get_actor_db_path(actor_name)]
    IN  [actor |-> actor_name, exists |-> f.exists,
         works         |-> Cardinality(f.data.works),
         authors       |-> Cardinality(f.data.authors),
         organizations |-> Cardinality(f.data.orgs),
         keywords      |-> Cardinality(f.data.keywords),
         venues        |-> Cardinality(f.data.venues)]

InstanceRecords == {W1, W2}

InstanceNext ==
    \/ \E a \in ActorNames : InitDb(a)
    \/ \E a \in ActorNames, w \in InstanceRecords : IngestOn(a, w)
    \/ \E a \in ActorNames : MergeOn(a, 2, 1)
    \/ \E a \in ActorNames : DeleteActorDb(a)

InstanceSpec == Init /\ [][InstanceNext]_vars

\* What the queries on an actor return: the statistics, and the author graph
\* with no filter.
Answers(fs, actor_name) ==
    [stats |-> get_actor_stats(fs, actor_name),
     graph |-> build_graph(fs[get_actor_db_path(actor_name)].data,
                           Query("authors", None, None, 0, {}, FALSE))]

\* C23: an operation addressed to one actor name leaves what the queries on
\* every other actor name return as it was.
C23_InstanceIsolation ==
    [][ops' = ops + 1 =>
         \A b \in ActorNames \ {last'.arg[1]} :
            Answers(files', b) = Answers(files, b)]_vars

EgoFocus   == {{PyInt(1)}, {PyInt(2)}, {PyInt(3), PyInt(7)}}
EgoYears   == {<<2020, 2020>>, <<2021, None>>, <<None, 2020>>}
EgoWeights == {0, 1, 2}
EgoQueries ==
    {Query("authors", y[1], y[2], m, f, TRUE) :
        y \in EgoYears, m \in EgoWeights, f \in EgoFocus}

EgoNext ==
    \/ \E w \in GraphRecords : Upsert(w)
    \/ RecomputeCoauthor
    \/ \E p \in GraphMerges : Merge(p[1], p[2], Note[1], Note[2])
    \/ Commit
    \/ \E q \in EgoQueries : BuildGraph(q)
    \/ Respond

EgoSpec == Init /\ [][EgoNext]_vars

\* The focus ids that are Authors of the store.
Focus(d, q) == FocusInts(q) \cap Ids(d.authors)

\* The ids joined to a focus author by an edge of at least the threshold
\* weight.
DirectCoauthors(d, q) ==
    {a \in {e.a_id : e \in d.coauthorEdges} \cup {e.b_id : e \in d.coauthorEdges} :
        \E e \in d.coauthorEdges, f \in Focus(d, q) :
            /\ e.weight >= q.edge_min_weight
            /\ \/ (e.a_id = f /\ e.b_id = a)
               \/ (e.b_id = f /\ e.a_id = a)}

\* C25: on the author layer, with a focus set of which some id is an
\* Author, focus_only true and a year bound given, the nodes returned are
\* the focus authors, each of them whether or not it has a Work in the
\* range, and those of their direct co-authors by an edge of weight at least
\* edge_min_weight that are linked to a Work in the year range.
C25_EgoYearNodes ==
    (/\ Answered
     /\ resp.q.layer = "authors" /\ resp.q.focus_only
     /\ ~NoYears(resp.q)
     /\ Focus(committed, resp.q) # {}) =>
        NodeIds(resp.g) =
          {NodeId("A", Str(x)) :
             x \in Focus(committed, resp.q) \cup
                   (DirectCoauthors(committed, resp.q)
                      \cap LinkedInRange(committed, resp.q))}

(***************************************************************************)
(* Two sessions on one instance                                            *)
(***************************************************************************)
\* a second session that never holds the write lock
HoldsNoLock(c) == FALSE

\* The engine is SQLite (create_engine("sqlite:///...")): the first DELETE,
\* INSERT or UPDATE of a transaction takes the write lock of the file and the
\* commit or rollback releases it; a statement of another session that needs
\* it waits.  The second session holds it from its DELETE to its commit.
HoldsLock(c) == c.pc \in {"deleted", "flushed"}

\* with get_db(actor_name) as db: the session exists, no statement has run
Enter ==
    /\ conc.a = "out" /\ ~open
    /\ conc' = [conc EXCEPT !.a = "in"]
    /\ UNCHANGED <<db, committed, pending, open, last, prev, ops, resp, files>>

\* upsert_work_from_openalex in this session; its first flush needs the lock
RaceUpsert(w) ==
    /\ conc.a = "in"
    /\ ~HoldsLock(conc)
    /\ Upsert(w)

\* recompute_coauthor_edges in the second session, statement by statement:
\* db.execute(delete(CoauthorEdge)) takes the lock, which this session holds
\* while it has uncommitted statements
OtherDelete ==
    /\ conc.pc = "idle"
    /\ ~open
    /\ conc' = [conc EXCEPT !.pc = "deleted", !.overlap = (conc.a = "in"),
                            !.db = [committed EXCEPT !.coauthorEdges = {}]]
    /\ UNCHANGED <<db, committed, pending, open, last, prev, ops, resp, files>>

\* the scan of the Works and their WorkAuthor rows as committed at that
\* moment, db.add of the edges, db.flush
OtherScan ==
    /\ conc.pc = "deleted"
    /\ \E s \in {recompute_coauthor_edges(
                     [db |-> [committed EXCEPT !.coauthorEdges = {}],
                      pend |-> <<>>, ok |-> TRUE, err |-> ""])} :
          conc' = [conc EXCEPT !.pc = "flushed", !.db = s.db]
    /\ UNCHANGED <<db, committed, pending, open, last, prev, ops, resp, files>>

\* get_db of the second session commits: its edge table replaces the
\* committed one, and this session reads the committed edge table too
OtherCommit ==
    /\ conc.pc = "flushed"
    /\ committed' = [committed EXCEPT !.coauthorEdges = conc.db.coauthorEdges]
    /\ db' = [db EXCEPT !.coauthorEdges = conc.db.coauthorEdges]
    /\ conc' = [conc EXCEPT !.pc = "done", !.links = committed.workAuthors]
    /\ UNCHANGED <<pending, open, last, prev, ops, resp, files>>

RaceRecords == {W1, W2, W4}

RaceNext ==
    \/ Enter
    \/ \E w \in RaceRecords : RaceUpsert(w)
    \/ Commit
    \/ OtherDelete
    \/ OtherScan
    \/ OtherCommit

RaceSpec == Init /\ [][RaceNext]_vars

RecomputeOps == {"recompute_coauthor", "recompute_org", "recompute_nation"}

\* The tables once the pending rows of the session are written.
Settled(d, p) == InsertAll(d, p).db

\* The store without the edge table of one recompute function.
OtherTables(d, op) ==
    CASE op = "recompute_coauthor" -> [d EXCEPT !.coauthorEdges = {}]
      [] op = "recompute_org"      -> [d EXCEPT !.orgEdges = {}]
      [] op = "recompute_nation"   -> [d EXCEPT !.nationEdges = {}]

OwnTable(d, op) ==
    CASE op = "recompute_coauthor" -> d.coauthorEdges
      [] op = "recompute_org"      -> d.orgEdges
      [] op = "recompute_nation"   -> d.nationEdges

\* C27: a recompute function that returns changes only its own edge table,
\* every entity, link and other edge row of the session staying as it was;
\* and called a second time right after itself, with no call in between, it
\* leaves its edge table with the same rows.
C27_RecomputeFrame ==
    [][(ops' = ops + 1 /\ last'.op \in RecomputeOps /\ ~last'.raised) =>
         /\ OtherTables(Settled(db', pending'), last'.op)
              = OtherTables(Settled(db, pending), last'.op)
         /\ (last.op = last'.op /\ ~last.raised /\ last.commit = "none") =>
              OwnTable(db', last'.op) = OwnTable(db, last'.op)]_vars

(***************************************************************************)
(* Records that match a stored Work                                        *)
(***************************************************************************)
\* the source id of W1 with a doi, a venue, no title and no year
V1 == [id |-> "W1", doi |-> <<"z", "z">>, title |-> "", publication_year |-> None,
       venue |-> "V", authorships |-> <<Authorship(Bob, <<>>)>>, concepts |-> <<>>]

RematchRecords == {W1, W1b, V1, P1, P2, P3}

RematchNext ==
    \/ \E w \in RematchRecords : Upsert(w)
    \/ Commit

RematchSpec == Init /\ [][RematchNext]_vars

\* C28: an upsert that returns an existing Work leaves its id, doi,
\* source_uid and source as stored, whichever key matched and whatever doi
\* and id the record carries; the title, year and venue of the row are those
\* of the record, and no other Work row is added, removed or changed.
C28_UpsertKeepsIdentity ==
    [][(UpsertReturns /\ last'.work \in Ids(db.works)) =>
         LET old == WorkOf(db, last'.work)
             new == WorkOf(db', last'.work)
             w   == last'.arg
         IN  /\ new.id = old.id /\ new.doi = old.doi
             /\ new.source_uid = old.source_uid /\ new.source = old.source
             /\ new.title = (IF w.title # "" THEN w.title ELSE Untitled)
             /\ new.year = w.publication_year
             /\ IF w.venue = "" THEN new.venue_id = None
                ELSE \E v \in db'.venues : v.name = w.venue /\ v.id = new.venue_id
             /\ db'.works \ {new} = db.works \ {old}]_vars

\* a Work matched by its source id by a record that carries a doi the row
\* does not have, or matched by its doi by a record under another source id;
\* the title or the venue of the row was overwritten
C28_Witness ==
    /\ last.op = "upsert" /\ ~last.raised
    /\ prev.op = "upsert" /\ ~prev.raised /\ prev.work = last.work
    /\ \E x \in db.works :
         /\ x.id = last.work
         /\ x.doi # Lower(last.arg.doi) \/ x.source_uid # last.arg.id
         /\ x.doi = Lower(prev.arg.doi) /\ x.source_uid = prev.arg.id
         /\ prev.arg.title # last.arg.title \/ prev.arg.venue # last.arg.venue

(***************************************************************************)
(* Records that list an author or a concept twice                          *)
(***************************************************************************)
\* two concepts with one normalized term
K2 == [id |-> "K2", doi |-> Empty, title |-> "K", publication_year |-> 2020,
       venue |-> "", authorships |-> <<Authorship(Cyd, <<>>)>>,
       concepts |-> <<Concept(<<"M", "L">>, 50), Concept(<<"m", "l", " ">>, NoScore)>>]
\* two authorships without a name
U2 == [id |-> "U2", doi |-> Empty, title |-> "U", publication_year |-> 2020,
       venue |-> "",
       authorships |-> <<Authorship(Empty, <<>>), Authorship(Empty, <<>>)>>,
       concepts |-> <<>>]

RepeatRecords == {W1, R2, K2, U2}

RepeatNext ==
    \/ \E w \in RepeatRecords : Upsert(w)
    \/ Commit

RepeatSpec == Init /\ [][RepeatNext]_vars

\* The normalized author names and terms a record lists.
ListedAuthors(w) ==
    {Lower(Strip(IF w.authorships[i].display_name # Empty
                 THEN w.authorships[i].display_name ELSE Unknown)) :
        i \in 1..Len(w.authorships)}
ListedTerms(w) ==
    {Lower(Strip(w.concepts[i].display_name)) : i \in 1..Len(w.concepts)}

Repeats(w) ==
    \/ Cardinality(ListedAuthors(w)) < Len(w.authorships)
    \/ Cardinality(ListedTerms(w)) < Len(w.concepts)

\* C29: the upsert of a record that lists one Author twice (names equal
\* after trimming and lowercasing, or two entries without a name) or one
\* normalized term twice returns, the flush and the commit that follow
\* succeed, and the Work has one WorkAuthor row per listed Author and one
\* WorkKeyword row per listed term.
C29_RepeatedEntries ==
    (last.op = "upsert" /\ Repeats(last.arg)) =>
        /\ ~last.raised
        /\ last.commit # "failed"
        /\ last.links.ok
        /\ Cardinality(last.links.rows.authors) = Cardinality(ListedAuthors(last.arg))
        /\ Cardinality(last.links.rows.keywords) = Cardinality(ListedTerms(last.arg))

\* The author ids the rows of d reference.
AuthorRefs(d) ==
    {x.author_id : x \in d.workAuthors}
      \cup {x.author_id : x \in {y \in d.workAffils : y.author_id # None}}
      \cup {x.author_id : x \in d.aliases}
      \cup {e.a_id : e \in d.coauthorEdges} \cup {e.b_id : e \in d.coauthorEdges}

Intact(d) == AuthorRefs(d) \subseteq Ids(d.authors)

\* C30: when merge_authors(kept_id, removed_id) returns, for any pair of
\* ids, on a store whose references were all to existing Authors, every
\* WorkAuthor row, every non-null WorkAffiliation.author_id, every
\* AuthorAlias row and every CoauthorEdge endpoint of the session (pending
\* rows counted) references an Author row of the store.
C30_MergeKeepsReferences ==
    [][(/\ ops' = ops + 1 /\ last'.op = "merge" /\ ~last'.raised
        /\ Intact(Settled(db, pending))) =>
          Intact(Settled(db', pending'))]_vars

====
